---- MODULE Spec2Model ----
(***************************************************************************)
(* simple_git_cicd: webhook intake, rate limiter, execution slot, job      *)
(* store and pipeline runner, modelled as a state machine.                 *)
(*                                                                         *)
(* Processes: one webhook handler per request (src/api/webhook.rs          *)
(* handle_webhook), one background task per created job (the closure       *)
(* handed to tokio::spawn), one configuration reload request per reload    *)
(* (src/api/config.rs reload_config_endpoint) and the wall clock.  An      *)
(* action is the code between two suspension points (.await).              *)
(***************************************************************************)
EXTENDS Integers, Sequences, FiniteSets, TLC

(* ------------------------------ bounds --------------------------------- *)
\* webhook requests per behaviour
NumRequests == 2
\* store operations (sqlx) that return Err per behaviour
MaxFaults == 1
\* calls made on the rate limiter exercised alone, per behaviour
MaxCalls == 4
\* seconds that pass while the rate limiter is exercised alone
MaxTime == 3
\* the largest max and the largest window_secs passed to the rate limiter
\* exercised alone
MaxQuota == 2
MaxWindowSecs == 2
\* the largest reading of the wall clock, in milliseconds, while a jobs row is
\* followed alone
MaxClock == 4
\* reload requests per behaviour while the queue of job_execution_lock is
\* followed
MaxReloads == 1
\* how far, in bytes, the lengths of the outputs handed to the store lie on
\* either side of the output cap
MaxExcess == 2
\* the capacity of a broadcast channel while a client of the event streams is
\* followed: the channels of the server hold 100 and 1000 messages, and a
\* client falls behind in the same way once more than the capacity is unread
ChannelCapacity == 2

(* --------------------------- Option<T> --------------------------------- *)
None == <<>>
Some(x) == <<x>>
IsSome(o) == o # <<>>
IsNone(o) == o = <<>>
Unwrap(o) == o[1]
UnwrapOr(o, d) == IF o = <<>> THEN d ELSE o[1]

(* ------------------------ project configuration ------------------------ *)
\* ProjectConfig::get_rate_limit / get_rate_limit_window defaults
DefaultRateLimit == 60
DefaultRateLimitWindow == 60

Project(name, secret_req, secret, reset, pre, post, post_ok, post_fail, post_always, rl, win) ==
    [name |-> name, branches |-> {<<"main">>}, run_script |-> "run",
     with_webhook_secret |-> secret_req, webhook_secret |-> secret,
     reset_to_remote |-> reset,
     pre_script |-> pre, post_script |-> post, post_success_script |-> post_ok,
     post_failure_script |-> post_fail, post_always_script |-> post_always,
     rate_limit_requests |-> rl, rate_limit_window_seconds |-> win]

\* the configuration the server starts with
Config1 ==
    << Project("demo", None, None, None, None, None, None,
               Some("notify"), None, Some(2), Some(1)),
       Project("sec", Some(TRUE), Some("s"), Some(FALSE), None, None, None,
               None, None, Some(1), Some(1)),
       Project("nokey", Some(TRUE), None, None, None, None, None,
               None, None, None, Some(1)) >>

\* the configuration file as edited before a reload: the secret of "sec" is emptied
Config2 ==
    << Project("demo", None, None, None, None, None, None,
               Some("notify"), None, Some(2), Some(1)),
       Project("sec", Some(TRUE), Some(""), Some(FALSE), None, None, None,
               None, None, Some(1), Some(1)),
       Project("nokey", Some(TRUE), None, None, None, None, None,
               None, None, None, Some(1)) >>

ConfigFiles == {Config1, Config2}
ProjectNames == UNION {{c[i].name : i \in 1..Len(c)} : c \in ConfigFiles}

needs_webhook_secret(p) == UnwrapOr(p.with_webhook_secret, FALSE)

has_valid_secret(p) ==
    IF IsSome(p.webhook_secret) THEN Unwrap(p.webhook_secret) # "" ELSE FALSE

get_rate_limit(p) == UnwrapOr(p.rate_limit_requests, DefaultRateLimit)

get_rate_limit_window(p) == UnwrapOr(p.rate_limit_window_seconds, DefaultRateLimitWindow)

should_reset_to_remote(p) == UnwrapOr(p.reset_to_remote, TRUE)

\* first project whose name and branch set match, cloned
find_matching_project_owned(cfg, repo_name, branch) ==
    LET hits == {i \in 1..Len(cfg) :
                    cfg[i].name = repo_name /\ branch \in cfg[i].branches}
    IN IF hits = {} THEN None
       ELSE Some(cfg[CHOOSE i \in hits : \A k \in hits : i <= k])

(* --------------------------- signature --------------------------------- *)
\* HMAC-SHA256 as an ideal MAC: distinct (key, message) pairs give distinct tags
Hmac(secret, payload) == <<secret, payload.id>>

\* the "sha256=<hex>" header: hex is well formed or not; bytes is what it decodes to
SigHeader(prefix, wellformed, bytes) ==
    [prefix |-> prefix, wellformed |-> wellformed, bytes |-> bytes]

\* the comparison accepting provided bytes that are a leading part of the MAC
verify_github_signature_ComparesPrefix(secret, payload, header) ==
    IF header.prefix # "sha256=" THEN FALSE
    ELSE IF header.wellformed
    THEN /\ Len(header.bytes) <= Len(Hmac(secret, payload))
         /\ \A i \in 1..Len(header.bytes) : header.bytes[i] = Hmac(secret, payload)[i]
    ELSE FALSE

verify_github_signature(secret, payload, header) ==
    IF header.prefix # "sha256=" THEN FALSE
    ELSE IF header.wellformed THEN Hmac(secret, payload) = header.bytes
    ELSE FALSE

(* --------------------------- rate limiter ------------------------------ *)
\* An Instant t is kept as its age now.duration_since(t), in seconds; the clock
\* ages every recorded Instant.  Ages stop at MaxWindow: no window of any
\* configuration file keeps an Instant that old.
MaxWindow ==
    LET ws == UNION {{get_rate_limit_window(c[i]) : i \in 1..Len(c)} : c \in ConfigFiles}
    IN CHOOSE w \in ws : \A v \in ws : v <= w

\* timestamps.retain(|&t| now.duration_since(t) < window_duration)
Retained(ts, window_secs) ==
    SelectSeq(ts, LAMBDA age : age < window_secs)

\* check_rate_limit admitting while at most max timestamps remain
check_rate_limit_AdmitsAtMax(requests, key, max, window_secs) ==
    LET kept == Retained(requests[key], window_secs)
    IN IF Len(kept) <= max
       THEN [throttled |-> FALSE, requests |-> [requests EXCEPT ![key] = Append(kept, 0)]]
       ELSE [throttled |-> TRUE, requests |-> [requests EXCEPT ![key] = kept]]

\* RateLimiter::check_rate_limit: [throttled, requests']
check_rate_limit(requests, key, max, window_secs) ==
    LET kept == Retained(requests[key], window_secs)
    IN IF Len(kept) < max
       THEN [throttled |-> FALSE, requests |-> [requests EXCEPT ![key] = Append(kept, 0)]]
       ELSE [throttled |-> TRUE, requests |-> [requests EXCEPT ![key] = kept]]

(* --------------------------- webhook requests -------------------------- *)
\* a push payload: parses as JSON or not, "ref" and "repository.name" present or not
Body(id, json, ref, repo) == [id |-> id, json |-> json, ref |-> ref, repo |-> repo]

BodyDemo == Body(1, TRUE, Some(<<"refs", "heads", "main">>), Some("demo"))
BodySec == Body(2, TRUE, Some(<<"refs", "heads", "main">>), Some("sec"))
BodyNoKey == Body(3, TRUE, Some(<<"main">>), Some("nokey"))
BodyOtherBranch == Body(4, TRUE, Some(<<"refs", "heads", "dev">>), Some("demo"))
BodyGhost == Body(5, TRUE, Some(<<"refs", "heads", "main">>), Some("ghost"))
BodyNotJson == Body(6, FALSE, None, None)
BodyNoRef == Body(7, TRUE, None, Some("demo"))
BodyNoRepo == Body(8, TRUE, Some(<<"refs", "heads", "main">>), None)

Sign(secret, body) == Some(SigHeader("sha256=", TRUE, Hmac(secret, body)))

\* one HTTP request: query parameters dev and dry_run, headers X-GitHub-Event,
\* X-Hub-Signature-256 and X-Dry-Run, and the body
Request(dev, dry_param, event, sig, dry_header, body) ==
    [dev |-> dev, dry_param |-> dry_param, event |-> event, sig |-> sig,
     dry_header |-> dry_header, body |-> body]

Push(body, sig) == Request(FALSE, None, Some("push"), sig, None, body)

\* the requests of the executor scenarios: plain push, two dry runs, a signed
\* push to the switch+pull project, and an unsigned one that is rejected
CoreRequests ==
    { Push(BodyDemo, None),
      Request(FALSE, Some("true"), Some("push"), None, None, BodyDemo),
      Push(BodySec, Sign("s", BodySec)),
      Push(BodySec, None) }

\* the requests of the intake scenarios: every check of the handler can fail,
\* alone and together with a later one
IntakeRequests ==
    CoreRequests \cup
    { Request(TRUE, None, Some("push"), None, None, BodyNotJson),
      Request(FALSE, None, Some("ping"), None, Some("1"), BodyDemo),
      Request(FALSE, None, None, None, None, BodyNotJson),
      Push(BodyNotJson, None),
      Push(BodyNoRef, None),
      Push(BodyNoRepo, Sign("s", BodyNoRepo)),
      Push(BodyOtherBranch, None),
      Push(BodyGhost, Sign("s", BodyGhost)),
      Push(BodySec, Sign("x", BodySec)),
      Push(BodyNoKey, None),
      Push(BodyNoKey, Sign("", BodyNoKey)) }

NoRequest == Request(FALSE, None, None, None, None, BodyNotJson)

\* dry_run: query dry_run=true or any X-Dry-Run header
IsDryRun(rq) == rq.dry_param = Some("true") \/ IsSome(rq.dry_header)

\* branch_ref.strip_prefix("refs/heads/").unwrap_or(branch_ref)
StripRefsHeads(ref) ==
    IF Len(ref) >= 2 /\ ref[1] = "refs" /\ ref[2] = "heads"
    THEN SubSeq(ref, 3, Len(ref)) ELSE ref

\* handle_webhook up to the project match: the status it returns there, or 0
\* together with the matched project when it goes on to the rate limiter
Route(rq, debug_assertions, cfg) ==
    IF debug_assertions /\ rq.dev THEN [code |-> 204, project |-> None]
    ELSE IF rq.event # Some("push") THEN [code |-> 204, project |-> None]
    ELSE IF ~rq.body.json THEN [code |-> 400, project |-> None]
    ELSE IF IsNone(rq.body.ref) \/ IsNone(rq.body.repo) THEN [code |-> 400, project |-> None]
    ELSE LET m == find_matching_project_owned(
                      cfg, Unwrap(rq.body.repo), StripRefsHeads(Unwrap(rq.body.ref)))
         IN IF IsNone(m) THEN [code |-> 204, project |-> None]
            ELSE [code |-> 0, project |-> m]

\* the signature checks with the configured secret examined before the header
SignatureCheck_SecretFirst(project, rq) ==
    IF ~needs_webhook_secret(project) THEN 0
    ELSE IF ~has_valid_secret(project) THEN 500
    ELSE IF IsNone(rq.sig) THEN 401
    ELSE IF ~verify_github_signature(Unwrap(project.webhook_secret), rq.body, Unwrap(rq.sig))
         THEN 401
    ELSE 0

\* the signature checks of handle_webhook: the status returned, or 0 to go on
SignatureCheck(project, rq) ==
    IF ~needs_webhook_secret(project) THEN 0
    ELSE IF IsNone(rq.sig) THEN 401
    ELSE IF ~has_valid_secret(project) THEN 500
    ELSE IF ~verify_github_signature(Unwrap(project.webhook_secret), rq.body, Unwrap(rq.sig))
         THEN 401
    ELSE 0

(* ------------------------------- state --------------------------------- *)
VARIABLES
    trace,        \* the calls made on a component exercised alone, with their results
    config,       \* AppState.config: the configuration snapshot
    rl_requests,  \* RateLimiter.requests: project name -> ages of the recorded Instants
    rl_holder,    \* the request whose handler holds the rate_limiter mutex, or 0
    req,          \* per request: the handler's position, its inputs and its response
    jobs,         \* table jobs
    logs,         \* table job_logs, per job in insertion order
    events,       \* job_events sends, per job
    task,         \* per job: the background task's position and locals
    slot,         \* the holder of job_execution_lock
    reload,       \* the position of the reload request in progress
    faults        \* store operations that have failed so far

vars == <<trace, config, rl_requests, rl_holder, req, jobs, logs, events, task, slot,
          reload, faults>>

RequestIds == 1..NumRequests

\* Job::new: a job starts Queued with nothing completed
NewJob(dry_run) ==
    [status |-> "queued", dry_run |-> dry_run, completed_at |-> None,
     output |-> None, error |-> None]

NoJob == [status |-> "absent", dry_run |-> FALSE, completed_at |-> None,
          output |-> None, error |-> None]

\* the locals of a background task: the moved project clone and dry_run flag,
\* the sequence counter, the step in progress with its RunningStep handle,
\* main_result / main_exit_code and the pipeline's result
NoTask == [pc |-> "none", project |-> None, dry_run |-> FALSE, sequence |-> 0,
           step |-> "none", row |-> None, main |-> "none", main_exit_code |-> 0,
           result |-> "none"]

FreeSlot == <<>>
JobHolder(j) == <<"job", j>>
ReloadHolder == <<"reload", 0>>

\* while the application runs, no calls are recorded
NoTrace == <<>>

Init ==
    /\ trace = NoTrace
    /\ config = Config1
    /\ rl_requests = [n \in ProjectNames |-> <<>>]
    /\ rl_holder = 0
    /\ req = [r \in RequestIds |-> [pc |-> "idle", rq |-> NoRequest, project |-> None, resp |-> 0]]
    /\ jobs = [j \in RequestIds |-> NoJob]
    /\ logs = [j \in RequestIds |-> <<>>]
    /\ events = [j \in RequestIds |-> <<>>]
    /\ task = [j \in RequestIds |-> NoTask]
    /\ slot = FreeSlot
    /\ reload = "idle"
    /\ faults = 0

\* a store call returning Ok (ok) or Err: at most MaxFaults calls fail
StoreCall(ok) ==
    /\ ok \/ faults < MaxFaults
    /\ faults' = IF ok THEN faults ELSE faults + 1

(* ---------------------------- the clock -------------------------------- *)
\* one second passes
Tick ==
    /\ rl_requests' = [n \in ProjectNames |->
                         [i \in 1..Len(rl_requests[n]) |->
                            IF rl_requests[n][i] < MaxWindow
                            THEN rl_requests[n][i] + 1 ELSE rl_requests[n][i]]]
    /\ rl_requests' # rl_requests
    /\ UNCHANGED <<trace, config, rl_holder, req, jobs, logs, events, task, slot, reload, faults>>

(* ----------------------- the rate limiter alone ----------------------- *)
\* the keys passed to the rate limiter exercised alone
RateKeys == {"demo", "sec"}

\* RateLimiter::new() and a caller that passes the same max and window_secs in
\* every call; the calls and their results are recorded, none yet
RateInit ==
    /\ \E max \in 0..MaxQuota, window_secs \in 1..MaxWindowSecs :
          trace = [max |-> max, window_secs |-> window_secs, now |-> 0, calls |-> <<>>]
    /\ config = Config1
    /\ rl_requests = [n \in ProjectNames |-> <<>>]
    /\ rl_holder = 0
    /\ req = [r \in RequestIds |-> [pc |-> "idle", rq |-> NoRequest, project |-> None, resp |-> 0]]
    /\ jobs = [j \in RequestIds |-> NoJob]
    /\ logs = [j \in RequestIds |-> <<>>]
    /\ events = [j \in RequestIds |-> <<>>]
    /\ task = [j \in RequestIds |-> NoTask]
    /\ slot = FreeSlot
    /\ reload = "idle"
    /\ faults = 0

\* one second passes: every recorded Instant is one second older
RL_Tick ==
    /\ trace.now < MaxTime
    /\ rl_requests' = [n \in ProjectNames |->
                         [i \in 1..Len(rl_requests[n]) |-> rl_requests[n][i] + 1]]
    /\ trace' = [trace EXCEPT !.now = @ + 1]
    /\ UNCHANGED <<config, rl_holder, req, jobs, logs, events, task, slot, reload, faults>>

\* rate_limiter.check_rate_limit(key, max, window_secs) is called now
RL_Call(key) ==
    /\ Len(trace.calls) < MaxCalls
    /\ LET res == check_rate_limit(rl_requests, key, trace.max, trace.window_secs)
       IN /\ rl_requests' = res.requests
          /\ trace' = [trace EXCEPT !.calls =
                         Append(@, [key |-> key, at |-> trace.now,
                                    throttled |-> res.throttled])]
    /\ UNCHANGED <<config, rl_holder, req, jobs, logs, events, task, slot, reload, faults>>

RateNext ==
    \/ RL_Tick
    \/ \E key \in RateKeys : RL_Call(key)

RateSpec == RateInit /\ [][RateNext]_vars

(* --------------------------- handle_webhook ---------------------------- *)
Respond(r, code) == [req EXCEPT ![r].pc = "done", ![r].resp = code]

\* request r arrives (requests are numbered in arrival order) and runs to its
\* first suspension point, rate_limiter.lock().await
H_Start(r, rq, debug_assertions) ==
    /\ req[r].pc = "idle"
    /\ \A k \in RequestIds : k < r => req[k].pc # "idle"
    /\ LET route == Route(rq, debug_assertions, config)
       IN req' = [req EXCEPT ![r] =
                    IF route.code # 0
                    THEN [pc |-> "done", rq |-> rq, project |-> None, resp |-> route.code]
                    ELSE [pc |-> "rl_wait", rq |-> rq, project |-> route.project, resp |-> 0]]
    /\ UNCHANGED <<trace, config, rl_requests, rl_holder, jobs, logs, events, task, slot,
                   reload, faults>>

\* the handler asking a copy of the rate limiter: the admission is not recorded
H_RateCheck_OnCopy(r) ==
    /\ req[r].pc = "rl_wait"
    /\ rl_holder = 0
    /\ LET project == Unwrap(req[r].project)
           res == check_rate_limit(rl_requests, project.name, get_rate_limit(project),
                                   get_rate_limit_window(project))
           sig == SignatureCheck(project, req[r].rq)
       IN /\ rl_requests' = rl_requests
          /\ IF res.throttled
             THEN req' = Respond(r, 429) /\ rl_holder' = 0
             ELSE IF sig # 0
             THEN req' = Respond(r, sig) /\ rl_holder' = 0
             ELSE req' = [req EXCEPT ![r].pc = "create"] /\ rl_holder' = r
    /\ UNCHANGED <<trace, config, jobs, logs, events, task, slot, reload, faults>>

\* the handler validating the signature before it asks the rate limiter
H_RateCheck_SignatureFirst(r) ==
    /\ req[r].pc = "rl_wait"
    /\ rl_holder = 0
    /\ LET project == Unwrap(req[r].project)
           res == check_rate_limit(rl_requests, project.name, get_rate_limit(project),
                                   get_rate_limit_window(project))
           sig == SignatureCheck(project, req[r].rq)
       IN IF sig # 0
          THEN req' = Respond(r, sig) /\ rl_holder' = 0 /\ rl_requests' = rl_requests
          ELSE /\ rl_requests' = res.requests
               /\ IF res.throttled
                  THEN req' = Respond(r, 429) /\ rl_holder' = 0
                  ELSE req' = [req EXCEPT ![r].pc = "create"] /\ rl_holder' = r
    /\ UNCHANGED <<trace, config, jobs, logs, events, task, slot, reload, faults>>

\* the handler taking the recorded timestamp back when the signature check
\* rejects the request
H_RateCheck_RefundsRejected(r) ==
    /\ req[r].pc = "rl_wait"
    /\ rl_holder = 0
    /\ LET project == Unwrap(req[r].project)
           res == check_rate_limit(rl_requests, project.name, get_rate_limit(project),
                                   get_rate_limit_window(project))
           sig == SignatureCheck(project, req[r].rq)
       IN IF res.throttled
          THEN req' = Respond(r, 429) /\ rl_holder' = 0 /\ rl_requests' = res.requests
          ELSE IF sig # 0
          THEN /\ req' = Respond(r, sig) /\ rl_holder' = 0
               /\ rl_requests' = [rl_requests EXCEPT ![project.name] =
                                     Retained(@, get_rate_limit_window(project))]
          ELSE /\ req' = [req EXCEPT ![r].pc = "create"] /\ rl_holder' = r
               /\ rl_requests' = res.requests
    /\ UNCHANGED <<trace, config, jobs, logs, events, task, slot, reload, faults>>

\* the handler gets the rate_limiter mutex and runs to create_job().await; the
\* guard is a local of the handler, so it is dropped when the handler returns
H_RateCheck(r) ==
    /\ req[r].pc = "rl_wait"
    /\ rl_holder = 0
    /\ LET project == Unwrap(req[r].project)
           res == check_rate_limit(rl_requests, project.name, get_rate_limit(project),
                                   get_rate_limit_window(project))
           sig == SignatureCheck(project, req[r].rq)
       IN /\ rl_requests' = res.requests
          /\ IF res.throttled
             THEN req' = Respond(r, 429) /\ rl_holder' = 0
             ELSE IF sig # 0
             THEN req' = Respond(r, sig) /\ rl_holder' = 0
             ELSE req' = [req EXCEPT ![r].pc = "create"] /\ rl_holder' = r
    /\ UNCHANGED <<trace, config, jobs, logs, events, task, slot, reload, faults>>

\* SqlJobStore::create_job: INSERT INTO jobs
create_job(store, id, job) == [store EXCEPT ![id] = job]

\* the handler spawning the task although create_job failed
H_CreateJob_SpawnsOnErr(r, ok) ==
    /\ req[r].pc = "create"
    /\ StoreCall(ok)
    /\ rl_holder' = 0
    /\ jobs' = IF ok THEN create_job(jobs, r, NewJob(IsDryRun(req[r].rq))) ELSE jobs
    /\ events' = IF ok THEN [events EXCEPT ![r] = Append(@, "created")] ELSE events
    /\ task' = [task EXCEPT ![r] =
                  [NoTask EXCEPT !.pc = "wait_slot", !.project = req[r].project,
                                 !.dry_run = IsDryRun(req[r].rq)]]
    /\ req' = Respond(r, IF ok THEN 200 ELSE 500)
    /\ UNCHANGED <<trace, config, rl_requests, logs, slot, reload>>

\* the handler taking job_execution_lock itself before it spawns and answers
H_CreateJob_AwaitsSlot(r, ok) ==
    /\ req[r].pc = "create"
    /\ slot = FreeSlot
    /\ StoreCall(ok)
    /\ rl_holder' = 0
    /\ IF ok
       THEN /\ jobs' = create_job(jobs, r, NewJob(IsDryRun(req[r].rq)))
            /\ events' = [events EXCEPT ![r] = Append(@, "created")]
            /\ task' = [task EXCEPT ![r] =
                          [NoTask EXCEPT !.pc = "wait_slot", !.project = req[r].project,
                                         !.dry_run = IsDryRun(req[r].rq)]]
            /\ req' = Respond(r, 200)
       ELSE /\ req' = Respond(r, 500)
            /\ UNCHANGED <<jobs, events, task>>
    /\ UNCHANGED <<trace, config, rl_requests, logs, slot, reload>>

\* the handler locking rate_limiter once more before it creates the job,
\* while it still holds the guard of its rate check
H_CreateJob_LocksAgain(r, ok) ==
    /\ req[r].pc = "create"
    /\ rl_holder = 0
    /\ StoreCall(ok)
    /\ rl_holder' = 0
    /\ IF ok
       THEN /\ jobs' = create_job(jobs, r, NewJob(IsDryRun(req[r].rq)))
            /\ events' = [events EXCEPT ![r] = Append(@, "created")]
            /\ task' = [task EXCEPT ![r] =
                          [NoTask EXCEPT !.pc = "wait_slot", !.project = req[r].project,
                                         !.dry_run = IsDryRun(req[r].rq)]]
            /\ req' = Respond(r, 200)
       ELSE /\ req' = Respond(r, 500)
            /\ UNCHANGED <<jobs, events, task>>
    /\ UNCHANGED <<trace, config, rl_requests, logs, slot, reload>>

\* create_job returns: on Err 500; on Ok the created event, the spawn and 200
H_CreateJob(r, ok) ==
    /\ req[r].pc = "create"
    /\ StoreCall(ok)
    /\ rl_holder' = 0
    /\ IF ok
       THEN /\ jobs' = create_job(jobs, r, NewJob(IsDryRun(req[r].rq)))
            /\ events' = [events EXCEPT ![r] = Append(@, "created")]
            /\ task' = [task EXCEPT ![r] =
                          [NoTask EXCEPT !.pc = "wait_slot", !.project = req[r].project,
                                         !.dry_run = IsDryRun(req[r].rq)]]
            /\ req' = Respond(r, 200)
       ELSE /\ req' = Respond(r, 500)
            /\ UNCHANGED <<jobs, events, task>>
    /\ UNCHANGED <<trace, config, rl_requests, logs, slot, reload>>

(* ------------------------ reload_config_endpoint ----------------------- *)
\* the reload going ahead without job_execution_lock
R_Acquire_NoLock ==
    /\ reload = "idle"
    /\ reload' = "locked"
    /\ UNCHANGED <<trace, config, rl_requests, rl_holder, req, jobs, logs, events, task, slot, faults>>

\* POST /api/reload arrives and gets job_execution_lock.  Reload requests
\* serialize on the lock, so one request at a time is in progress.
R_Acquire ==
    /\ reload = "idle"
    /\ slot = FreeSlot
    /\ slot' = ReloadHolder
    /\ reload' = "locked"
    /\ UNCHANGED <<trace, config, rl_requests, rl_holder, req, jobs, logs, events, task, faults>>

\* reload_config reads the file: Ok(file) swaps the snapshot, Err (file = None)
\* leaves it; the guard is dropped on return
R_Apply(file) ==
    /\ reload = "locked"
    /\ config' = IF IsSome(file) THEN Unwrap(file) ELSE config
    /\ slot' = FreeSlot
    /\ reload' = "idle"
    /\ UNCHANGED <<trace, rl_requests, rl_holder, req, jobs, logs, events, task, faults>>

\* POST /api/reload arrives while job_execution_lock is held: the handler is
\* suspended in lock().await
R_Request ==
    /\ reload = "idle"
    /\ slot # FreeSlot
    /\ reload' = "waiting"
    /\ UNCHANGED <<trace, config, rl_requests, rl_holder, req, jobs, logs, events, task, slot, faults>>

\* the suspended reload handler gets the lock
R_Grant ==
    /\ reload = "waiting"
    /\ slot = FreeSlot
    /\ slot' = ReloadHolder
    /\ reload' = "locked"
    /\ UNCHANGED <<trace, config, rl_requests, rl_holder, req, jobs, logs, events, task, faults>>

\* what reload_config returns: Err, or Ok with the file's content
ReloadResults(files) == {None} \cup {Some(c) : c \in files}

(* ------------------------------ job store ------------------------------ *)
\* SqlJobStore::update_job_status: UPDATE jobs SET status = ? WHERE id = ?
update_job_status(store, id, status) == [store EXCEPT ![id].status = status]

\* complete_job with the error column left out of the UPDATE
complete_job_KeepsError(store, id, status, output, error) ==
    [store EXCEPT ![id].status = status, ![id].output = output,
                  ![id].completed_at = Some("now")]

\* SqlJobStore::complete_job: status, output, error and completed_at in one UPDATE
complete_job(store, id, status, output, error) ==
    [store EXCEPT ![id].status = status, ![id].output = output, ![id].error = error,
                  ![id].completed_at = Some("now")]

JobLog(sequence, log_type, command, exit_code, output, status) ==
    [sequence |-> sequence, log_type |-> log_type, command |-> command,
     exit_code |-> exit_code, output |-> output, status |-> status]

\* SqlJobStore::add_log: INSERT INTO job_logs; the new row's id is its place
add_log(rows, log) == Append(rows, log)

\* SqlJobStore::update_log: UPDATE job_logs SET ... WHERE id = ?
update_log(rows, id, exit_code, output, status) ==
    [rows EXCEPT ![id].exit_code = Some(exit_code), ![id].output = Some(output),
                 ![id].status = status]

(* ----------------------------- subprocesses ---------------------------- *)
\* what Command::output().await gives: exit 0, a nonzero exit code (-1 stands
\* for a child killed by a signal), or the spawn itself fails
Outcome(kind, code) == [kind |-> kind, code |-> code]
Outcomes == {Outcome("ok", 0), Outcome("nonzero", 1), Outcome("nonzero", 2),
             Outcome("nonzero", -1), Outcome("spawn_fail", 0)}
CoreOutcomes == {Outcome("ok", 0), Outcome("nonzero", 2), Outcome("spawn_fail", 0)}
\* every subprocess succeeds
OkOutcomes == {Outcome("ok", 0)}
\* every subprocess starts, and exits with 0 or with 2
ExitOutcomes == {Outcome("ok", 0), Outcome("nonzero", 2)}

GitSteps == {"git_fetch", "git_reset", "git_switch", "git_pull"}

(* --------------------------- run_job_pipeline -------------------------- *)
\* the step after the git steps and the pre_script
AfterGit(p) == IF IsSome(p.pre_script) THEN "pre_script" ELSE "main_script"

AfterPost(p) == IF IsSome(p.post_always_script) THEN "post_always" ELSE "end"

\* step 5 returning as soon as main has failed
AfterMain_QuietFailure(p, main_ok) ==
    IF main_ok
    THEN IF IsSome(p.post_success_script) THEN "post_success"
         ELSE IF IsSome(p.post_script) THEN "post_script" ELSE AfterPost(p)
    ELSE "end"

\* step 5 preferring the generic post_script to the outcome-specific hook
AfterMain_PostScriptFirst(p, main_ok) ==
    IF IsSome(p.post_script) THEN "post_script"
    ELSE IF main_ok
    THEN IF IsSome(p.post_success_script) THEN "post_success" ELSE AfterPost(p)
    ELSE IF IsSome(p.post_failure_script) THEN "post_failure" ELSE AfterPost(p)

\* step 5: the hook chosen by main's result
AfterMain(p, main_ok) ==
    IF main_ok
    THEN IF IsSome(p.post_success_script) THEN "post_success"
         ELSE IF IsSome(p.post_script) THEN "post_script" ELSE AfterPost(p)
    ELSE IF IsSome(p.post_failure_script) THEN "post_failure"
         ELSE IF IsSome(p.post_script) THEN "post_script" ELSE AfterPost(p)

\* the pipeline going from git_fetch straight to the scripts
NextStep_SkipsCheckout(p, step, main_ok) ==
    CASE step = "git_fetch" -> AfterGit(p)
      [] step = "pre_script" -> "main_script"
      [] step = "main_script" -> AfterMain(p, main_ok)
      [] step \in {"post_success", "post_failure", "post_script"} -> AfterPost(p)
      [] OTHER -> "end"

\* the step run_job_pipeline starts after `step` has succeeded (after
\* main_script: has finished, main_ok telling how)
NextStep(p, step, main_ok) ==
    CASE step = "git_fetch" ->
             IF should_reset_to_remote(p) THEN "git_reset" ELSE "git_switch"
      [] step = "git_switch" -> "git_pull"
      [] step \in {"git_reset", "git_pull"} -> AfterGit(p)
      [] step = "pre_script" -> "main_script"
      [] step = "main_script" -> AfterMain(p, main_ok)
      [] step \in {"post_success", "post_failure", "post_script"} -> AfterPost(p)
      [] OTHER -> "end"

\* a pre_script failure treated like a hook failure
Fatal_GitOnly(step) == step \in GitSteps

\* the steps whose failure makes run_job_pipeline return Err at once
Fatal(step) == step \in GitSteps \cup {"pre_script"}

\* the command start_step records for `step` of project p; the pushed branch
\* is main
StepCommand(p, step) ==
    CASE step = "git_fetch" -> "git fetch"
      [] step = "git_reset" -> "git reset --hard origin/main"
      [] step = "git_switch" -> "git switch main"
      [] step = "git_pull" -> "git pull"
      [] step = "pre_script" -> Unwrap(p.pre_script)
      [] step = "main_script" -> p.run_script
      [] step = "post_success" -> Unwrap(p.post_success_script)
      [] step = "post_failure" -> Unwrap(p.post_failure_script)
      [] step = "post_script" -> Unwrap(p.post_script)
      [] OTHER -> Unwrap(p.post_always_script)

(* ----------------------- the dry-run simulation ------------------------ *)
DryAfterMain(p) ==
    IF IsSome(p.post_success_script) THEN "post_success_script"
    ELSE IF IsSome(p.post_always_script) THEN "post_always_script" ELSE "end"

\* the simulated log entry written after `step`
DryNextStep(p, step) ==
    CASE step = "git_fetch" -> "git_reset"
      [] step = "git_reset" -> AfterGit(p)
      [] step = "pre_script" -> "main_script"
      [] step = "main_script" -> DryAfterMain(p)
      [] step = "post_success_script" ->
             IF IsSome(p.post_always_script) THEN "post_always_script" ELSE "end"
      [] OTHER -> "end"

\* the command written on the simulated log entry of `step`
DryCommand(p, step) ==
    CASE step = "git_fetch" -> "git fetch origin"
      [] step = "git_reset" -> "git reset --hard origin/main"
      [] step = "pre_script" -> Unwrap(p.pre_script)
      [] step = "main_script" -> p.run_script
      [] step = "post_success_script" -> Unwrap(p.post_success_script)
      [] OTHER -> Unwrap(p.post_always_script)

(* -------------------------- the background task ------------------------ *)
\* the lock taken as `let _ = ...lock().await`: the guard is dropped at once
T_Acquire_GuardDropped(j) ==
    /\ task[j].pc = "wait_slot"
    /\ slot = FreeSlot
    /\ slot' = FreeSlot
    /\ task' = [task EXCEPT ![j].pc = "mark_running"]
    /\ UNCHANGED <<trace, config, rl_requests, rl_holder, req, jobs, logs, events, reload, faults>>

\* job_execution_lock.lock().await
T_Acquire(j) ==
    /\ task[j].pc = "wait_slot"
    /\ slot = FreeSlot
    /\ slot' = JobHolder(j)
    /\ task' = [task EXCEPT ![j].pc = "mark_running"]
    /\ UNCHANGED <<trace, config, rl_requests, rl_holder, req, jobs, logs, events, reload, faults>>

\* the task running the pipeline whatever its dry_run flag
Started_IgnoresDryRun(t) ==
    [t EXCEPT !.pc = "step_start", !.step = "git_fetch", !.sequence = 0]

\* the continuation of the task once update_job_status(Running) has returned Ok
Started(t) ==
    IF t.dry_run
    THEN [t EXCEPT !.pc = "dry_log", !.step = "git_fetch", !.sequence = 0]
    ELSE [t EXCEPT !.pc = "step_start", !.step = "git_fetch", !.sequence = 0]

\* the task without its update_job_status(Running) call
T_MarkRunning_NoUpdate(j, ok) ==
    /\ task[j].pc = "mark_running"
    /\ ok /\ faults' = faults
    /\ task' = [task EXCEPT ![j] = Started(@)]
    /\ events' = IF task[j].dry_run THEN events
                 ELSE [events EXCEPT ![j] = Append(@, "running")]
    /\ UNCHANGED <<trace, config, rl_requests, rl_holder, req, jobs, logs, slot, reload>>

\* the early return taken with the lock still held (no guard to drop)
T_MarkRunning_ReturnsHolding(j, ok) ==
    /\ task[j].pc = "mark_running"
    /\ StoreCall(ok)
    /\ IF ok
       THEN /\ jobs' = update_job_status(jobs, j, "running")
            /\ task' = [task EXCEPT ![j] = Started(@)]
            /\ events' = IF task[j].dry_run THEN events
                         ELSE [events EXCEPT ![j] = Append(@, "running")]
       ELSE /\ task' = [task EXCEPT ![j].pc = "done"]
            /\ UNCHANGED <<jobs, events>>
    /\ UNCHANGED <<trace, config, rl_requests, rl_holder, req, logs, slot, reload>>

\* the task sending the running event before it looks at dry_run
T_MarkRunning_AlwaysAnnounces(j, ok) ==
    /\ task[j].pc = "mark_running"
    /\ StoreCall(ok)
    /\ IF ok
       THEN /\ jobs' = update_job_status(jobs, j, "running")
            /\ task' = [task EXCEPT ![j] = Started(@)]
            /\ events' = [events EXCEPT ![j] = Append(@, "running")]
            /\ slot' = slot
       ELSE /\ task' = [task EXCEPT ![j].pc = "done"]
            /\ slot' = FreeSlot
            /\ UNCHANGED <<jobs, events>>
    /\ UNCHANGED <<trace, config, rl_requests, rl_holder, req, logs, reload>>

\* update_job_status(Running) returns: Err ends the task (the guard is dropped),
\* Ok goes on to the dry-run simulation or to the running event and the pipeline
T_MarkRunning(j, ok) ==
    /\ task[j].pc = "mark_running"
    /\ StoreCall(ok)
    /\ IF ok
       THEN /\ jobs' = update_job_status(jobs, j, "running")
            /\ task' = [task EXCEPT ![j] = Started(@)]
            /\ events' = IF task[j].dry_run THEN events
                         ELSE [events EXCEPT ![j] = Append(@, "running")]
            /\ slot' = slot
       ELSE /\ task' = [task EXCEPT ![j].pc = "done"]
            /\ slot' = FreeSlot
            /\ UNCHANGED <<jobs, events>>
    /\ UNCHANGED <<trace, config, rl_requests, rl_holder, req, logs, reload>>

\* one simulated JobLog: `let _ = add_log(..)`, sequence += 1; after the last
\* one the running event is sent and complete_job is awaited
T_DryAddLog(j, ok) ==
    /\ task[j].pc = "dry_log"
    /\ StoreCall(ok)
    /\ LET t == task[j]
           next == DryNextStep(Unwrap(t.project), t.step)
       IN /\ logs' = IF ok
                     THEN [logs EXCEPT ![j] =
                             add_log(@, JobLog(t.sequence, t.step,
                                               DryCommand(Unwrap(t.project), t.step),
                                               Some(0), Some("[DRY_RUN] Skipped"),
                                               "skipped"))]
                     ELSE logs
          /\ IF next = "end"
             THEN /\ task' = [task EXCEPT ![j].pc = "complete", ![j].step = "end",
                                          ![j].result = "ok"]
                  /\ events' = [events EXCEPT ![j] = Append(@, "running")]
             ELSE /\ task' = [task EXCEPT ![j].step = next, ![j].sequence = @ + 1]
                  /\ events' = events
    /\ UNCHANGED <<trace, config, rl_requests, rl_holder, req, jobs, slot, reload>>

\* run_job_pipeline giving up when the starting row cannot be persisted
T_StartStep_AbortsOnErr(j, ok) ==
    /\ task[j].pc = "step_start"
    /\ StoreCall(ok)
    /\ LET t == task[j]
       IN /\ logs' = IF ok
                     THEN [logs EXCEPT ![j] =
                             add_log(@, JobLog(t.sequence + 1, t.step,
                                               StepCommand(Unwrap(t.project), t.step),
                                               None, None, "running"))]
                     ELSE logs
          /\ task' = IF ok
                     THEN [task EXCEPT ![j].pc = "step_run", ![j].sequence = @ + 1,
                                       ![j].row = Some(Len(logs[j]) + 1)]
                     ELSE [task EXCEPT ![j].pc = "complete", ![j].sequence = @ + 1,
                                       ![j].result = "err"]
    /\ UNCHANGED <<trace, config, rl_requests, rl_holder, req, jobs, events, slot, reload>>

\* start_step recording the command of the project as configured now
T_StartStep_ReadsConfig(j, ok) ==
    /\ task[j].pc = "step_start"
    /\ StoreCall(ok)
    /\ LET t == task[j]
           now == find_matching_project_owned(config, Unwrap(t.project).name, <<"main">>)
       IN /\ logs' = IF ok
                     THEN [logs EXCEPT ![j] =
                             add_log(@, JobLog(t.sequence + 1, t.step,
                                               IF t.step = "main_script"
                                               THEN Unwrap(now).run_script
                                               ELSE StepCommand(Unwrap(t.project), t.step),
                                               None, None, "running"))]
                     ELSE logs
          /\ task' = [task EXCEPT ![j].pc = "step_run", ![j].sequence = @ + 1,
                                  ![j].row = IF ok THEN Some(Len(logs[j]) + 1) ELSE None]
    /\ UNCHANGED <<trace, config, rl_requests, rl_holder, req, jobs, events, slot, reload>>

\* PipelineLogger::start_step: sequence += 1, then add_log of a running row;
\* the handle is Some(id) on Ok and None on Err
T_StartStep(j, ok) ==
    /\ task[j].pc = "step_start"
    /\ StoreCall(ok)
    /\ LET t == task[j]
       IN /\ logs' = IF ok
                     THEN [logs EXCEPT ![j] =
                             add_log(@, JobLog(t.sequence + 1, t.step,
                                               StepCommand(Unwrap(t.project), t.step),
                                               None, None, "running"))]
                     ELSE logs
          /\ task' = [task EXCEPT ![j].pc = "step_run", ![j].sequence = @ + 1,
                                  ![j].row = IF ok THEN Some(Len(logs[j]) + 1) ELSE None]
    /\ UNCHANGED <<trace, config, rl_requests, rl_holder, req, jobs, events, slot, reload>>

\* whether the step's row is finalized: a git step whose spawn fails returns
\* through `?` before fail_step; otherwise the row is updated when there is a handle
Finalizes(t, out) ==
    IsSome(t.row) /\ ~(t.step \in GitSteps /\ out.kind = "spawn_fail")

\* the exit code written to the step's row
RowExitCode(t, out) ==
    IF out.kind = "ok" THEN 0
    ELSE IF t.step \in GitSteps THEN out.code
    ELSE 1

\* PipelineLogger::complete_step / fail_step
FinishRow(rows, t, out) ==
    update_log(rows, Unwrap(t.row), RowExitCode(t, out),
               IF out.kind = "ok" THEN "out" ELSE "err",
               IF out.kind = "ok" THEN "success" ELSE "failed")

\* the pipeline returning Err when its last hook has failed
Stepped_HookFails(t, out) ==
    LET okay == out.kind = "ok"
        main == IF t.step = "main_script" THEN (IF okay THEN "ok" ELSE "err") ELSE t.main
        next == NextStep(Unwrap(t.project), t.step, okay)
    IN IF ~okay /\ Fatal(t.step)
       THEN [t EXCEPT !.pc = "complete", !.row = None, !.result = "err"]
       ELSE IF next = "end"
       THEN [t EXCEPT !.pc = "complete", !.row = None, !.main = main,
                      !.result = IF okay THEN main ELSE "err",
                      !.main_exit_code = IF main = "ok" THEN 0 ELSE 1]
       ELSE [t EXCEPT !.pc = "step_start", !.row = None, !.main = main, !.step = next,
                      !.main_exit_code = IF main = "ok" THEN 0 ELSE 1]

\* the task's locals once the subprocess of its step has ended with `out`
Stepped(t, out) ==
    LET okay == out.kind = "ok"
        main == IF t.step = "main_script" THEN (IF okay THEN "ok" ELSE "err") ELSE t.main
        next == NextStep(Unwrap(t.project), t.step, okay)
    IN IF ~okay /\ Fatal(t.step)
       THEN [t EXCEPT !.pc = "complete", !.row = None, !.result = "err"]
       ELSE IF next = "end"
       THEN [t EXCEPT !.pc = "complete", !.row = None, !.main = main, !.result = main,
                      !.main_exit_code = IF main = "ok" THEN 0 ELSE 1]
       ELSE [t EXCEPT !.pc = "step_start", !.row = None, !.main = main, !.step = next,
                      !.main_exit_code = IF main = "ok" THEN 0 ELSE 1]

\* the pipeline going on without complete_step / fail_step
T_FinishStep_NoFinalize(j, out, ok) ==
    /\ task[j].pc = "step_run"
    /\ ok /\ faults' = faults
    /\ logs' = logs
    /\ task' = [task EXCEPT ![j] = Stepped(task[j], out)]
    /\ UNCHANGED <<trace, config, rl_requests, rl_holder, req, jobs, events, slot, reload>>

\* the step's subprocess ends with `out` and its row is finalized (update_log
\* returning Ok or Err); then the next step, or run_job_pipeline returns
T_FinishStep(j, out, ok) ==
    /\ task[j].pc = "step_run"
    /\ LET t == task[j]
       IN /\ IF Finalizes(t, out) THEN StoreCall(ok) ELSE ok /\ faults' = faults
          /\ logs' = IF Finalizes(t, out) /\ ok
                     THEN [logs EXCEPT ![j] = FinishRow(@, t, out)]
                     ELSE logs
          /\ task' = [task EXCEPT ![j] = Stepped(t, out)]
    /\ UNCHANGED <<trace, config, rl_requests, rl_holder, req, jobs, events, slot, reload>>

\* the task keeping the guard alive past its end (the guard leaked)
T_Complete_KeepsSlot(j, ok) ==
    /\ task[j].pc = "complete"
    /\ StoreCall(ok)
    /\ jobs' = IF ~ok THEN jobs
               ELSE IF task[j].result = "ok"
               THEN complete_job(jobs, j, "success", Some("out"), None)
               ELSE complete_job(jobs, j, "failed", None, Some("err"))
    /\ events' = [events EXCEPT ![j] =
                     Append(@, IF task[j].result = "ok" THEN "success" ELSE "failed")]
    /\ task' = [task EXCEPT ![j].pc = "done"]
    /\ UNCHANGED <<trace, config, rl_requests, rl_holder, req, logs, slot, reload>>

\* f[1] + ... + f[n]
RECURSIVE SumTo(_, _)
SumTo(f, n) == IF n = 0 THEN 0 ELSE f[n] + SumTo(f, n - 1)

\* what has been sent so far on a broadcast channel: on job_events the events
\* of every job, on log_chunks one chunk for every step finalized with output
Sent(stream) ==
    SumTo([j \in RequestIds |->
              IF stream = "job_events" THEN Len(events[j])
              ELSE Cardinality({i \in 1..Len(logs[j]) :
                                   logs[j][i].status \in {"success", "failed"}})],
          NumRequests)

\* the messages of its channel that the streaming client has not been handed
Unread == IF trace.stream = "none" THEN 0 ELSE Sent(trace.stream) - trace.pos

\* the terminal event sent as on a bounded queue: the send waits while a
\* receiver has a full buffer
T_Complete_AwaitsReceivers(j, ok) ==
    /\ task[j].pc = "complete"
    /\ ~(trace.stream = "job_events" /\ Unread >= ChannelCapacity)
    /\ StoreCall(ok)
    /\ LET success == task[j].result = "ok"
       IN /\ jobs' = IF ~ok THEN jobs
                     ELSE IF success
                     THEN complete_job(jobs, j, "success", Some("out"), None)
                     ELSE complete_job(jobs, j, "failed", None, Some("err"))
          /\ events' = [events EXCEPT ![j] =
                          Append(@, IF success THEN "success" ELSE "failed")]
    /\ task' = [task EXCEPT ![j].pc = "done"]
    /\ slot' = FreeSlot
    /\ UNCHANGED <<trace, config, rl_requests, rl_holder, req, logs, reload>>

\* complete_job returns (Ok or Err), the terminal event is sent and the task
\* ends, dropping the guard
T_Complete(j, ok) ==
    /\ task[j].pc = "complete"
    /\ StoreCall(ok)
    /\ LET success == task[j].result = "ok"
       IN /\ jobs' = IF ~ok THEN jobs
                     ELSE IF success
                     THEN complete_job(jobs, j, "success", Some("out"), None)
                     ELSE complete_job(jobs, j, "failed", None, Some("err"))
          /\ events' = [events EXCEPT ![j] =
                          Append(@, IF success THEN "success" ELSE "failed")]
    /\ task' = [task EXCEPT ![j].pc = "done"]
    /\ slot' = FreeSlot
    /\ UNCHANGED <<trace, config, rl_requests, rl_holder, req, logs, reload>>

\* the task panics while it holds the guard: the runtime catches the panic
\* and drops the task, and the unwinding drops `_guard`; nothing else is
\* written
T_Panic(j) ==
    /\ task[j].pc \in {"mark_running", "dry_log", "step_start", "step_run", "complete"}
    /\ task' = [task EXCEPT ![j].pc = "panicked"]
    /\ slot' = FreeSlot
    /\ UNCHANGED <<trace, config, rl_requests, rl_holder, req, jobs, logs, events, reload, faults>>

(* --------------------------- specifications --------------------------- *)
\* the handlers of the requests drawn from Requests; create_job returns Ok, or
\* Err too when Oks is BOOLEAN; cfg!(debug_assertions) is fixed by the build,
\* and both builds are covered
Handlers(Requests, Oks) ==
    \/ \E r \in RequestIds, rq \in Requests, dbg \in BOOLEAN : H_Start(r, rq, dbg)
    \/ \E r \in RequestIds : H_RateCheck(r)
    \/ \E r \in RequestIds, ok \in Oks : H_CreateJob(r, ok)

\* the background tasks: JobOks are the results of the writes to table jobs,
\* LogOks those of the writes to table job_logs, Outs the subprocess outcomes
Tasks(JobOks, LogOks, Outs) ==
    \/ \E j \in RequestIds : T_Acquire(j)
    \/ \E j \in RequestIds, ok \in JobOks : T_MarkRunning(j, ok)
    \/ \E j \in RequestIds, ok \in LogOks : T_DryAddLog(j, ok)
    \/ \E j \in RequestIds, ok \in LogOks : T_StartStep(j, ok)
    \/ \E j \in RequestIds, out \in Outs, ok \in LogOks : T_FinishStep(j, out, ok)
    \/ \E j \in RequestIds, ok \in JobOks : T_Complete(j, ok)

Reloads(files) ==
    \/ R_Acquire
    \/ \E file \in ReloadResults(files) : R_Apply(file)

\* the executor scenarios: handlers, background tasks and reloads race for the
\* rate limiter, the store and the execution slot; any write to table jobs may
\* fail
Next ==
    \/ Handlers(CoreRequests, BOOLEAN)
    \/ Tasks(BOOLEAN, {TRUE}, CoreOutcomes)
    \/ Reloads(ConfigFiles)

Spec == Init /\ [][Next]_vars

\* the intake scenarios: every kind of request, while time passes and the
\* configuration is reloaded.  The responses depend on the background tasks
\* only through the reloads these delay, so the tasks are left unscheduled.
IntakeNext ==
    \/ Tick
    \/ Handlers(IntakeRequests, BOOLEAN)
    \/ Reloads(ConfigFiles)

IntakeSpec == Init /\ [][IntakeNext]_vars

\* the configurations of the pipeline scenarios: one project, with every
\* combination of reset_to_remote and the five hooks, and a quota of one request
PipelineConfigs ==
    { << Project("demo", None, None, reset, pre, post, post_ok, post_fail, post_always,
                 Some(1), Some(1)) >> :
        reset \in {None, Some(TRUE), Some(FALSE)},
        pre \in {None, Some("pre")},
        post \in {None, Some("post")},
        post_ok \in {None, Some("post_ok")},
        post_fail \in {None, Some("post_fail")},
        post_always \in {None, Some("post_always")} }

PipelineInit ==
    /\ trace = NoTrace
    /\ config \in PipelineConfigs
    /\ rl_requests = [n \in ProjectNames |-> <<>>]
    /\ rl_holder = 0
    /\ req = [r \in RequestIds |-> [pc |-> "idle", rq |-> NoRequest, project |-> None, resp |-> 0]]
    /\ jobs = [j \in RequestIds |-> NoJob]
    /\ logs = [j \in RequestIds |-> <<>>]
    /\ events = [j \in RequestIds |-> <<>>]
    /\ task = [j \in RequestIds |-> NoTask]
    /\ slot = FreeSlot
    /\ reload = "idle"
    /\ faults = 0

\* a push and a dry-run push for the project
PipelineRequests ==
    { Push(BodyDemo, None),
      Request(FALSE, None, Some("push"), None, Some("1"), BodyDemo) }

\* the pipeline scenarios: the job of the one admitted request runs with every
\* outcome of every subprocess; the writes to table jobs may fail
PipelineNext ==
    \/ Handlers(PipelineRequests, {TRUE})
    \/ Tasks(BOOLEAN, {TRUE}, Outcomes)

PipelineSpec == PipelineInit /\ [][PipelineNext]_vars

\* the reload scenarios: jobs run while reload requests arrive, also while the
\* slot is taken; every store operation succeeds
ReloadNext ==
    \/ Handlers(CoreRequests, {TRUE})
    \/ Tasks({TRUE}, {TRUE}, CoreOutcomes)
    \/ Reloads(ConfigFiles)
    \/ R_Request
    \/ R_Grant

ReloadSpec == Init /\ [][ReloadNext]_vars

\* the executor scenarios in which a task may also panic at any point after
\* it got the lock
PanicNext ==
    \/ Handlers(CoreRequests, {TRUE})
    \/ Tasks(BOOLEAN, {TRUE}, CoreOutcomes)
    \/ Reloads(ConfigFiles)
    \/ \E j \in RequestIds : T_Panic(j)

PanicSpec == Init /\ [][PanicNext]_vars

\* the executor scenarios in which every store operation succeeds
LiveNext ==
    \/ Handlers(CoreRequests, {TRUE})
    \/ Tasks({TRUE}, {TRUE}, CoreOutcomes)
    \/ Reloads(ConfigFiles)

\* the runtime polls every spawned task that can proceed, a store operation
\* returns and a subprocess terminates (weak fairness of each task step);
\* tokio's Mutex is fair, so a task waiting for job_execution_lock gets it
\* although reloads keep taking it in between (strong fairness of T_Acquire);
\* a reload that holds the lock finishes
TaskFairness ==
    /\ \A j \in RequestIds :
          /\ SF_vars(T_Acquire(j))
          /\ WF_vars(T_MarkRunning(j, TRUE))
          /\ WF_vars(T_DryAddLog(j, TRUE))
          /\ WF_vars(T_StartStep(j, TRUE))
          /\ WF_vars(\E out \in CoreOutcomes : T_FinishStep(j, out, TRUE))
          /\ WF_vars(T_Complete(j, TRUE))
    /\ WF_vars(\E file \in ReloadResults(ConfigFiles) : R_Apply(file))

LiveSpec == Init /\ [][LiveNext]_vars /\ TaskFairness

\* handlers next to background tasks, create_job returning Ok or Err
HandlerNext ==
    \/ Handlers(CoreRequests, BOOLEAN)
    \/ Tasks({TRUE}, {TRUE}, CoreOutcomes)

\* a handler that can proceed is polled, and the store answers create_job (Ok
\* or Err).  Nothing is assumed of the background tasks or the subprocesses:
\* a pipeline may hold the slot forever.
HandlerFairness ==
    \A r \in RequestIds :
        /\ WF_vars(H_RateCheck(r))
        /\ WF_vars(\E ok \in BOOLEAN : H_CreateJob(r, ok))

HandlerSpec == Init /\ [][HandlerNext]_vars /\ HandlerFairness

\* the configurations of the dry-run scenarios: one project with every
\* combination of the hooks the simulation looks at
DryRunConfigs ==
    {c \in PipelineConfigs :
        /\ IsNone(c[1].reset_to_remote) /\ IsNone(c[1].post_script)
        /\ IsNone(c[1].post_failure_script)}

DryRunInit ==
    /\ trace = NoTrace
    /\ config \in DryRunConfigs
    /\ rl_requests = [n \in ProjectNames |-> <<>>]
    /\ rl_holder = 0
    /\ req = [r \in RequestIds |-> [pc |-> "idle", rq |-> NoRequest, project |-> None, resp |-> 0]]
    /\ jobs = [j \in RequestIds |-> NoJob]
    /\ logs = [j \in RequestIds |-> <<>>]
    /\ events = [j \in RequestIds |-> <<>>]
    /\ task = [j \in RequestIds |-> NoTask]
    /\ slot = FreeSlot
    /\ reload = "idle"
    /\ faults = 0

\* a push, a push with dry_run=false, and the two ways of asking for a dry run
DryRunRequests ==
    PipelineRequests \cup
    { Request(FALSE, Some("true"), Some("push"), None, None, BodyDemo),
      Request(FALSE, Some("false"), Some("push"), None, None, BodyDemo) }

\* the dry-run scenarios: the job of the one admitted request is simulated, or
\* runs with subprocesses that succeed, while any store write may fail
DryRunNext ==
    \/ Handlers(DryRunRequests, {TRUE})
    \/ Tasks(BOOLEAN, BOOLEAN, OkOutcomes)

DryRunSpec == DryRunInit /\ [][DryRunNext]_vars

\* the configurations of the step-log scenarios: those of the pipeline
\* scenarios that configure post_failure_script and no post_script
StepLogConfigs ==
    {c \in PipelineConfigs :
        IsNone(c[1].post_script) /\ IsSome(c[1].post_failure_script)}

StepLogInit ==
    /\ trace = NoTrace
    /\ config \in StepLogConfigs
    /\ rl_requests = [n \in ProjectNames |-> <<>>]
    /\ rl_holder = 0
    /\ req = [r \in RequestIds |-> [pc |-> "idle", rq |-> NoRequest, project |-> None, resp |-> 0]]
    /\ jobs = [j \in RequestIds |-> NoJob]
    /\ logs = [j \in RequestIds |-> <<>>]
    /\ events = [j \in RequestIds |-> <<>>]
    /\ task = [j \in RequestIds |-> NoTask]
    /\ slot = FreeSlot
    /\ reload = "idle"
    /\ faults = 0

\* a push for the project
StepLogRequests == {Push(BodyDemo, None)}

\* the step-log scenarios: the pipeline of the one admitted push runs while
\* any write to table job_logs may fail; the writes to table jobs succeed
StepLogNext ==
    \/ Handlers(StepLogRequests, {TRUE})
    \/ \E j \in RequestIds : T_Acquire(j)
    \/ \E j \in RequestIds : T_MarkRunning(j, TRUE)
    \/ \E j \in RequestIds, ok \in BOOLEAN : T_StartStep(j, ok)
    \/ \E j \in RequestIds, out \in CoreOutcomes, ok \in BOOLEAN : T_FinishStep(j, out, ok)
    \/ \E j \in RequestIds : T_Complete(j, TRUE)

StepLogSpec == StepLogInit /\ [][StepLogNext]_vars

(* -------------------- the main script's exit code --------------------- *)
\* run_script_with_env: Ok(ScriptResult) with the process's exit code when
\* status.success(), Err when the script cannot be started or exits nonzero
\* (a child killed by a signal has no code: unwrap_or(-1))
run_script_with_env(out) ==
    IF out.kind = "spawn_fail" THEN None
    ELSE IF out.code = 0 THEN Some([exit_code |-> out.code])
    ELSE None

\* main_result.as_ref().map(|r| r.exit_code).unwrap_or(1)
main_exit_code(main_result) ==
    IF IsSome(main_result) THEN Unwrap(main_result).exit_code ELSE 1

\* steps 4 to 6 of run_job_pipeline for one project: the main script is
\* about to be started
ExitCodeInit ==
    /\ \E c \in PipelineConfigs :
          trace = [project |-> c[1], stage |-> "main_script", returned |-> None,
                   main_exit_code |-> 0, row_exit_code |-> None, launched |-> <<>>]
    /\ config = Config1
    /\ rl_requests = [n \in ProjectNames |-> <<>>]
    /\ rl_holder = 0
    /\ req = [r \in RequestIds |-> [pc |-> "idle", rq |-> NoRequest, project |-> None, resp |-> 0]]
    /\ jobs = [j \in RequestIds |-> NoJob]
    /\ logs = [j \in RequestIds |-> <<>>]
    /\ events = [j \in RequestIds |-> <<>>]
    /\ task = [j \in RequestIds |-> NoTask]
    /\ slot = FreeSlot
    /\ reload = "idle"
    /\ faults = 0

\* the main script's process ends with `out`: main_exit_code is computed and
\* complete_step (result.exit_code) or fail_step (main_exit_code) writes the row
X_Main(out) ==
    /\ trace.stage = "main_script"
    /\ LET main_result == run_script_with_env(out)
       IN trace' = [trace EXCEPT
                      !.stage = AfterMain(trace.project, IsSome(main_result)),
                      !.returned = Some(out),
                      !.main_exit_code = main_exit_code(main_result),
                      !.row_exit_code =
                          Some(IF IsSome(main_result) THEN Unwrap(main_result).exit_code
                               ELSE main_exit_code(main_result))]
    /\ UNCHANGED <<config, rl_requests, rl_holder, req, jobs, logs, events, task, slot,
                   reload, faults>>

\* a post script is launched with post_env =
\* ("CICD_MAIN_SCRIPT_EXIT_CODE", main_exit_code.to_string())
X_Post ==
    /\ trace.stage \in {"post_success", "post_failure", "post_script", "post_always"}
    /\ trace' = [trace EXCEPT
                   !.launched = Append(@, [script |-> trace.stage,
                                           env |-> trace.main_exit_code]),
                   !.stage = NextStep(trace.project, trace.stage, TRUE)]
    /\ UNCHANGED <<config, rl_requests, rl_holder, req, jobs, logs, events, task, slot,
                   reload, faults>>

ExitCodeNext ==
    \/ \E out \in Outcomes : X_Main(out)
    \/ X_Post

ExitCodeSpec == ExitCodeInit /\ [][ExitCodeNext]_vars

(* ------------------------ one row of table jobs ------------------------ *)
\* job.rs MAX_OUTPUT_SIZE: 1024 * 1024
MAX_OUTPUT_SIZE == 1048576

\* a String as its length in bytes and what was appended to it
Text(len, tail) == [len |-> len, tail |-> tail]

\* the outputs handed to complete_job: empty, and around the cap
OutputTexts ==
    {Text(0, "")} \cup
    {Text(MAX_OUTPUT_SIZE + d, "") : d \in (0 - MaxExcess)..MaxExcess}

\* the readings of Utc::now(), in milliseconds; the wall clock may be set back
ClockReadings == 0..MaxClock

\* DateTime::to_rfc3339 writes the instant with its full sub-second precision;
\* DateTime::parse_from_rfc3339 reads such a string back, Err on anything else
to_rfc3339(t) == [rfc3339 |-> TRUE, ms |-> t]
parse_from_rfc3339(str) == IF str.rfc3339 THEN Some(str.ms) ELSE None

\* Job::new and create_job: the row as inserted; completed_at, output,
\* output_truncated, error and duration_ms are left NULL
InsertedRow(now) ==
    [status |-> "queued", started_at |-> to_rfc3339(now), completed_at |-> None,
     output |-> None, output_truncated |-> None, error |-> None, duration_ms |-> None]

\* complete_job: duration_ms from the stored started_at, unwrap_or(0) when
\* it does not parse
duration_ms(started_at, completed_at) ==
    LET start == parse_from_rfc3339(started_at)
    IN IF IsSome(start) THEN completed_at - Unwrap(start) ELSE 0

\* complete_job: UPDATE jobs SET status, output, error, completed_at, duration_ms
complete_job_update(row, status, output, error, completed_at) ==
    [row EXCEPT !.status = status, !.output = output, !.error = error,
                !.completed_at = Some(to_rfc3339(completed_at)),
                !.duration_ms = Some(duration_ms(row.started_at, completed_at))]

\* From<JobRow> for Job: output_truncated.unwrap_or(false)
output_truncated(row) == UnwrapOr(row.output_truncated, FALSE)

\* a job is created at some reading of the wall clock
JobRowInit ==
    /\ \E now \in ClockReadings : trace = InsertedRow(now)
    /\ config = Config1
    /\ rl_requests = [n \in ProjectNames |-> <<>>]
    /\ rl_holder = 0
    /\ req = [r \in RequestIds |-> [pc |-> "idle", rq |-> NoRequest, project |-> None, resp |-> 0]]
    /\ jobs = [j \in RequestIds |-> NoJob]
    /\ logs = [j \in RequestIds |-> <<>>]
    /\ events = [j \in RequestIds |-> <<>>]
    /\ task = [j \in RequestIds |-> NoTask]
    /\ slot = FreeSlot
    /\ reload = "idle"
    /\ faults = 0

\* update_job_status(Running)
S_MarkRunning ==
    /\ trace.status = "queued"
    /\ trace' = [trace EXCEPT !.status = "running"]
    /\ UNCHANGED <<config, rl_requests, rl_holder, req, jobs, logs, events, task, slot,
                   reload, faults>>

\* the task's complete_job(Success, Some(output), None, Utc::now())
S_CompleteSuccess(output, now) ==
    /\ trace.status = "running"
    /\ trace' = complete_job_update(trace, "success", Some(output), None, now)
    /\ UNCHANGED <<config, rl_requests, rl_holder, req, jobs, logs, events, task, slot,
                   reload, faults>>

\* the task's complete_job(Failed, None, Some(e.to_string()), Utc::now())
S_CompleteFailed(now) ==
    /\ trace.status = "running"
    /\ trace' = complete_job_update(trace, "failed", None, Some("err"), now)
    /\ UNCHANGED <<config, rl_requests, rl_holder, req, jobs, logs, events, task, slot,
                   reload, faults>>

JobRowNext ==
    \/ S_MarkRunning
    \/ \E output \in OutputTexts, now \in ClockReadings : S_CompleteSuccess(output, now)
    \/ \E now \in ClockReadings : S_CompleteFailed(now)

JobRowSpec == JobRowInit /\ [][JobRowNext]_vars

(* ------------------------------ event bus ------------------------------ *)
\* One client of GET /api/stream/jobs.  job_events is a broadcast channel: a
\* receiver created by subscribe() gets the events sent after that, in the
\* order of the sends; it skips events only when it falls behind by more
\* than the channel's capacity, which the events of these behaviours never
\* reach.  `from` is the number of events of each job sent before subscribe().
NoSubscriber ==
    [live |-> FALSE, from |-> [j \in RequestIds |-> 0],
     received |-> [j \in RequestIds |-> <<>>]]

EventInit ==
    /\ trace = NoSubscriber
    /\ config = Config1
    /\ rl_requests = [n \in ProjectNames |-> <<>>]
    /\ rl_holder = 0
    /\ req = [r \in RequestIds |-> [pc |-> "idle", rq |-> NoRequest, project |-> None, resp |-> 0]]
    /\ jobs = [j \in RequestIds |-> NoJob]
    /\ logs = [j \in RequestIds |-> <<>>]
    /\ events = [j \in RequestIds |-> <<>>]
    /\ task = [j \in RequestIds |-> NoTask]
    /\ slot = FreeSlot
    /\ reload = "idle"
    /\ faults = 0

\* stream_jobs: state.job_events.subscribe()
Sub_Subscribe ==
    /\ ~trace.live
    /\ trace' = [trace EXCEPT !.live = TRUE,
                               !.from = [j \in RequestIds |-> Len(events[j])]]
    /\ UNCHANGED <<config, rl_requests, rl_holder, req, jobs, logs, events, task, slot,
                   reload, faults>>

\* the BroadcastStream yields the next event, here one of job j
Sub_Recv(j) ==
    /\ trace.live
    /\ trace.from[j] + Len(trace.received[j]) < Len(events[j])
    /\ trace' = [trace EXCEPT !.received[j] =
                    Append(@, events[j][trace.from[j] + Len(trace.received[j]) + 1])]
    /\ UNCHANGED <<config, rl_requests, rl_holder, req, jobs, logs, events, task, slot,
                   reload, faults>>

\* the event scenarios: a push and a dry-run push are handled and their jobs
\* run while a client subscribes and reads; the writes to table jobs may fail
EventNext ==
    \/ Handlers(PipelineRequests, {TRUE})
    \/ Tasks(BOOLEAN, {TRUE}, ExitOutcomes)
    \/ Sub_Subscribe
    \/ \E j \in RequestIds : Sub_Recv(j)

EventSpec == EventInit /\ [][EventNext]_vars

(* ------------------- the signature verifier alone --------------------- *)
\* The text after the prefix, as hex::decode sees it: a sequence of digit
\* pairs, each a valid pair (standing for one byte) or holding a character
\* that is no hex digit, and possibly one digit left over
HexText(pairs, odd) == [pairs |-> pairs, odd |-> odd]

HexPair(valid, byte) == [valid |-> valid, byte |-> byte]

\* hex::decode: Err(OddLength), Err(InvalidHexCharacter), or the bytes
hex_decode(hex) ==
    IF hex.odd THEN None
    ELSE IF \E i \in 1..Len(hex.pairs) : ~hex.pairs[i].valid THEN None
    ELSE Some([i \in 1..Len(hex.pairs) |-> hex.pairs[i].byte])

\* a header value: what it begins with (at most the prefix's length) and the rest
HeaderText(prefix, hex) == [prefix |-> prefix, hex |-> hex]

\* starts_with(expected_prefix), the slice after the prefix and hex_decode
ParseHeader(text) ==
    SigHeader(text.prefix, IsSome(hex_decode(text.hex)),
              UnwrapOr(hex_decode(text.hex), <<>>))

\* `==` on two byte slices compares the lengths, then the bytes; how many
\* bytes it looks at is left to the build: up to the first difference, or all
SliceEqCosts(a, b) ==
    IF Len(a) # Len(b) THEN {0}
    ELSE LET diff == {i \in 1..Len(a) : a[i] # b[i]}
         IN IF diff = {} THEN {Len(a)}
            ELSE {CHOOSE i \in diff : \A k \in diff : i <= k, Len(a)}

SigSecrets == {"", "s", "x"}
SigPayloads == {BodyDemo, BodySec}

\* byte strings a header may carry: every MAC of the secrets and payloads
\* (each differs from the others in its first byte, its last byte or both),
\* MACs cut short, MACs with a byte appended, and nothing
SigBytes ==
    LET macs == {Hmac(secret, payload) : secret \in SigSecrets, payload \in SigPayloads}
    IN macs \cup {SubSeq(m, 1, 1) : m \in macs} \cup {Append(m, m[2]) : m \in macs}
            \cup {<<>>}

\* the hex texts: an encoding, possibly with a digit left over, possibly with
\* a character in its first pair that is no hex digit
SigHexTexts ==
    {HexText([i \in 1..Len(bytes) |->
                 HexPair(~(bad /\ i = 1), bytes[i])], odd) :
        bytes \in SigBytes, odd \in BOOLEAN, bad \in BOOLEAN}

SigHeaderTexts ==
    {HeaderText(prefix, hex) : prefix \in {"sha256=", "sha1=", "sha256", ""},
                               hex \in SigHexTexts}

\* one call verify_github_signature(secret, payload, header) is about to be made
SigInit ==
    /\ \E secret \in SigSecrets, payload \in SigPayloads, header \in SigHeaderTexts :
          trace = [secret |-> secret, payload |-> payload, header |-> header,
                   result |-> None, cost |-> None]
    /\ config = Config1
    /\ rl_requests = [n \in ProjectNames |-> <<>>]
    /\ rl_holder = 0
    /\ req = [r \in RequestIds |-> [pc |-> "idle", rq |-> NoRequest, project |-> None, resp |-> 0]]
    /\ jobs = [j \in RequestIds |-> NoJob]
    /\ logs = [j \in RequestIds |-> <<>>]
    /\ events = [j \in RequestIds |-> <<>>]
    /\ task = [j \in RequestIds |-> NoTask]
    /\ slot = FreeSlot
    /\ reload = "idle"
    /\ faults = 0

\* the call returns; cost is the number of bytes the comparison looked at,
\* when the call got as far as the comparison
V_Verify ==
    /\ IsNone(trace.result)
    /\ LET header == ParseHeader(trace.header)
           compared == header.prefix = "sha256=" /\ header.wellformed
       IN \E cost \in IF compared
                       THEN SliceEqCosts(Hmac(trace.secret, trace.payload), header.bytes)
                       ELSE {0} :
             trace' = [trace EXCEPT
                         !.result = Some(verify_github_signature(
                                             trace.secret, trace.payload, header)),
                         !.cost = IF compared THEN Some(cost) ELSE None]
    /\ UNCHANGED <<config, rl_requests, rl_holder, req, jobs, logs, events, task, slot,
                   reload, faults>>

SigNext == V_Verify

SigSpec == SigInit /\ [][SigNext]_vars

(* ---------------- the rate limiter under changing quotas --------------- *)
\* RateLimiter::new() and a caller whose max and window_secs may differ from
\* call to call, as the handler's do once a reload has changed
\* rate_limit_requests; the arguments of the last call per key are recorded
QuotaInit ==
    /\ trace = [now |-> 0, calls |-> 0, last |-> [key \in RateKeys |-> None]]
    /\ config = Config1
    /\ rl_requests = [n \in ProjectNames |-> <<>>]
    /\ rl_holder = 0
    /\ req = [r \in RequestIds |-> [pc |-> "idle", rq |-> NoRequest, project |-> None, resp |-> 0]]
    /\ jobs = [j \in RequestIds |-> NoJob]
    /\ logs = [j \in RequestIds |-> <<>>]
    /\ events = [j \in RequestIds |-> <<>>]
    /\ task = [j \in RequestIds |-> NoTask]
    /\ slot = FreeSlot
    /\ reload = "idle"
    /\ faults = 0

\* rate_limiter.check_rate_limit(key, max, window_secs) is called now
RL_CallWith(key, max, window_secs) ==
    /\ trace.calls < MaxCalls
    /\ LET res == check_rate_limit(rl_requests, key, max, window_secs)
       IN /\ rl_requests' = res.requests
          /\ trace' = [trace EXCEPT
                         !.calls = @ + 1,
                         !.last[key] = Some([max |-> max, window_secs |-> window_secs,
                                             throttled |-> res.throttled])]
    /\ UNCHANGED <<config, rl_holder, req, jobs, logs, events, task, slot, reload, faults>>

QuotaNext ==
    \/ RL_Tick
    \/ \E key \in RateKeys, max \in 0..MaxQuota, window_secs \in 1..MaxWindowSecs :
          RL_CallWith(key, max, window_secs)

QuotaSpec == QuotaInit /\ [][QuotaNext]_vars

(* --------------------- reloads that change a project -------------------- *)
\* the configuration file as edited before a reload: project demo gets
\* another run_script, a pre_script and reset_to_remote = false, and loses
\* its post_failure_script
Config3 ==
    [Config1 EXCEPT ![1] = [@ EXCEPT !.run_script = "deploy",
                                     !.pre_script = Some("pre"),
                                     !.reset_to_remote = Some(FALSE),
                                     !.post_failure_script = None]]

SnapshotFiles == {Config3}

\* the snapshot scenarios: pushes and dry-run pushes for project demo are
\* accepted and their jobs run while the edited file is reloaded; every store
\* operation succeeds
SnapshotNext ==
    \/ Handlers(PipelineRequests, {TRUE})
    \/ Tasks({TRUE}, {TRUE}, ExitOutcomes)
    \/ Reloads(SnapshotFiles)

SnapshotSpec == Init /\ [][SnapshotNext]_vars

(* ------------------- a client of the event streams --------------------- *)
\* One client of GET /api/stream/jobs or GET /api/stream/logs.  subscribe()
\* gives a receiver positioned after what has been sent; the BroadcastStream
\* hands over the messages in order; a receiver that has more than the
\* channel's capacity unread gets RecvError::Lagged and continues at the
\* oldest message the channel still holds, and the handler's filter_map drops
\* the error.  Sender::send returns Err when the channel has no receiver and
\* Ok otherwise; every sender writes `let _ = ...send(..)`.
NoClient == [stream |-> "none", pos |-> 0]

Streams == {"job_events", "log_chunks"}

StreamInit ==
    /\ trace = NoClient
    /\ config = Config1
    /\ rl_requests = [n \in ProjectNames |-> <<>>]
    /\ rl_holder = 0
    /\ req = [r \in RequestIds |-> [pc |-> "idle", rq |-> NoRequest, project |-> None, resp |-> 0]]
    /\ jobs = [j \in RequestIds |-> NoJob]
    /\ logs = [j \in RequestIds |-> <<>>]
    /\ events = [j \in RequestIds |-> <<>>]
    /\ task = [j \in RequestIds |-> NoTask]
    /\ slot = FreeSlot
    /\ reload = "idle"
    /\ faults = 0

\* stream_jobs / stream_logs: subscribe()
Stream_Subscribe(stream) ==
    /\ trace.stream = "none"
    /\ trace' = [stream |-> stream, pos |-> Sent(stream)]
    /\ UNCHANGED <<config, rl_requests, rl_holder, req, jobs, logs, events, task, slot,
                   reload, faults>>

\* the stream yields Ok(message): the client is handed the next message
Stream_Recv ==
    /\ trace.stream # "none"
    /\ Unread > 0 /\ Unread <= ChannelCapacity
    /\ trace' = [trace EXCEPT !.pos = @ + 1]
    /\ UNCHANGED <<config, rl_requests, rl_holder, req, jobs, logs, events, task, slot,
                   reload, faults>>

\* the stream yields Err(Lagged(n)), which is skipped: the n oldest unread
\* messages are gone
Stream_Lagged ==
    /\ trace.stream # "none"
    /\ Unread > ChannelCapacity
    /\ trace' = [trace EXCEPT !.pos = Sent(trace.stream) - ChannelCapacity]
    /\ UNCHANGED <<config, rl_requests, rl_holder, req, jobs, logs, events, task, slot,
                   reload, faults>>

\* the client disconnects: the receiver is dropped
Stream_Close ==
    /\ trace.stream # "none"
    /\ trace' = NoClient
    /\ UNCHANGED <<config, rl_requests, rl_holder, req, jobs, logs, events, task, slot,
                   reload, faults>>

\* the streaming scenarios: a push and a dry-run push are handled and their
\* jobs run while a client subscribes, reads, falls behind or leaves; every
\* store operation succeeds
StreamNext ==
    \/ Handlers(PipelineRequests, {TRUE})
    \/ Tasks({TRUE}, {TRUE}, ExitOutcomes)
    \/ \E stream \in Streams : Stream_Subscribe(stream)
    \/ Stream_Recv
    \/ Stream_Lagged
    \/ Stream_Close

StreamSpec == StreamInit /\ [][StreamNext]_vars

(* ------------------ the queue of job_execution_lock -------------------- *)
\* job_execution_lock is a tokio::sync::Mutex: lock().await takes the lock
\* when it is free and nobody is queued, and joins the queue otherwise; a
\* release hands the lock to the first in the queue.  The queue is followed
\* together with the order in which the waiters began to wait (arrived) and
\* the order in which they got the lock (granted).
NoQueue == [queue |-> <<>>, arrived |-> <<>>, granted |-> <<>>]

Arrived == {trace.arrived[i] : i \in 1..Len(trace.arrived)}

FifoInit ==
    /\ trace = NoQueue
    /\ config = Config1
    /\ rl_requests = [n \in ProjectNames |-> <<>>]
    /\ rl_holder = 0
    /\ req = [r \in RequestIds |-> [pc |-> "idle", rq |-> NoRequest, project |-> None, resp |-> 0]]
    /\ jobs = [j \in RequestIds |-> NoJob]
    /\ logs = [j \in RequestIds |-> <<>>]
    /\ events = [j \in RequestIds |-> <<>>]
    /\ task = [j \in RequestIds |-> NoTask]
    /\ slot = FreeSlot
    /\ reload = "idle"
    /\ faults = 0

\* the spawned task is polled for the first time and calls lock()
T_Lock(j) ==
    /\ task[j].pc = "wait_slot"
    /\ JobHolder(j) \notin Arrived
    /\ IF slot = FreeSlot /\ trace.queue = <<>>
       THEN /\ slot' = JobHolder(j)
            /\ task' = [task EXCEPT ![j].pc = "mark_running"]
            /\ trace' = [trace EXCEPT !.arrived = Append(@, JobHolder(j)),
                                      !.granted = Append(@, JobHolder(j))]
       ELSE /\ trace' = [trace EXCEPT !.arrived = Append(@, JobHolder(j)),
                                      !.queue = Append(@, JobHolder(j))]
            /\ UNCHANGED <<slot, task>>
    /\ UNCHANGED <<config, rl_requests, rl_holder, req, jobs, logs, events, reload, faults>>

\* POST /api/reload arrives and its handler calls lock()
R_Lock ==
    /\ reload = "idle"
    /\ Cardinality({i \in 1..Len(trace.arrived) : trace.arrived[i] = ReloadHolder}) < MaxReloads
    /\ IF slot = FreeSlot /\ trace.queue = <<>>
       THEN /\ slot' = ReloadHolder
            /\ reload' = "locked"
            /\ trace' = [trace EXCEPT !.arrived = Append(@, ReloadHolder),
                                      !.granted = Append(@, ReloadHolder)]
       ELSE /\ reload' = "waiting"
            /\ trace' = [trace EXCEPT !.arrived = Append(@, ReloadHolder),
                                      !.queue = Append(@, ReloadHolder)]
            /\ slot' = slot
    /\ UNCHANGED <<config, rl_requests, rl_holder, req, jobs, logs, events, task, faults>>

\* the lock handed to the waiter that joined the queue last
Q_Grant_Newest ==
    /\ slot = FreeSlot
    /\ trace.queue # <<>>
    /\ LET n == Len(trace.queue)
           w == trace.queue[n]
       IN /\ slot' = w
          /\ trace' = [trace EXCEPT !.queue = SubSeq(@, 1, n - 1),
                                    !.granted = Append(@, w)]
          /\ IF w = ReloadHolder
             THEN reload' = "locked" /\ task' = task
             ELSE reload' = reload /\ task' = [task EXCEPT ![w[2]].pc = "mark_running"]
    /\ UNCHANGED <<config, rl_requests, rl_holder, req, jobs, logs, events, faults>>

\* the guard has been dropped while waiters are queued: the first of them
\* gets the lock
Q_Grant ==
    /\ slot = FreeSlot
    /\ trace.queue # <<>>
    /\ LET w == Head(trace.queue)
       IN /\ slot' = w
          /\ trace' = [trace EXCEPT !.queue = Tail(@), !.granted = Append(@, w)]
          /\ IF w = ReloadHolder
             THEN reload' = "locked" /\ task' = task
             ELSE reload' = reload /\ task' = [task EXCEPT ![w[2]].pc = "mark_running"]
    /\ UNCHANGED <<config, rl_requests, rl_holder, req, jobs, logs, events, faults>>

\* the queue scenarios: pushes for project demo are accepted, their tasks and
\* reload requests queue for job_execution_lock; every store operation and
\* every subprocess succeeds
FifoNext ==
    \/ Handlers(StepLogRequests, {TRUE})
    \/ \E j \in RequestIds : T_Lock(j)
    \/ R_Lock
    \/ Q_Grant
    \/ \E j \in RequestIds : T_MarkRunning(j, TRUE)
    \/ \E j \in RequestIds : T_StartStep(j, TRUE)
    \/ \E j \in RequestIds, out \in OkOutcomes : T_FinishStep(j, out, TRUE)
    \/ \E j \in RequestIds : T_Complete(j, TRUE)
    \/ \E file \in ReloadResults(ConfigFiles) : R_Apply(file)

\* the runtime polls every task that can proceed, store operations return,
\* subprocesses terminate and a reload that holds the lock finishes.  The
\* hand-over of the lock needs weak fairness only: the head of the queue
\* stays the head until it is served.
FifoFairness ==
    /\ \A j \in RequestIds :
          /\ WF_vars(T_MarkRunning(j, TRUE))
          /\ WF_vars(T_StartStep(j, TRUE))
          /\ WF_vars(\E out \in OkOutcomes : T_FinishStep(j, out, TRUE))
          /\ WF_vars(T_Complete(j, TRUE))
    /\ WF_vars(Q_Grant)
    /\ WF_vars(\E file \in ReloadResults(ConfigFiles) : R_Apply(file))

FifoSpec == FifoInit /\ [][FifoNext]_vars /\ FifoFairness

(* ------------------------------- claims -------------------------------- *)
Running == {j \in RequestIds : jobs[j].status = "running"}
Terminal == {"success", "failed"}

\* the positions of a task between acquiring job_execution_lock and finishing
InFlight == {"mark_running", "dry_log", "step_start", "step_run", "complete"}
TasksInFlight == {j \in RequestIds : task[j].pc \in InFlight}

\* C1: at no time does the job store contain two jobs whose status is Running.
\* Violated: when complete_job returns Err the row stays Running, the slot is
\* released all the same, and the next task marks its own job Running.
C1_AtMostOneRunning == Cardinality(Running) <= 1

\* C2: at most one background task is between acquiring job_execution_lock and
\* finishing, and that task is the holder of the lock.
C2_OnePipelineInFlight ==
    /\ Cardinality(TasksInFlight) <= 1
    /\ \A j \in TasksInFlight : slot = JobHolder(j)

\* C2 witness: one job's pipeline runs a step while another job's task waits
C2_Witness ==
    \E j, k \in RequestIds :
        /\ task[j].pc = "step_run" /\ ~task[j].dry_run
        /\ task[k].pc = "wait_slot" /\ jobs[k].status = "queued"

\* the changes of one job's stored status that the lifecycle allows
Lifecycle == {<<"absent", "queued">>, <<"queued", "running">>,
              <<"running", "success">>, <<"running", "failed">>}

\* C3: a job's stored status only changes along Queued -> Running -> Success
\* or Failed: it is created Queued, becomes Running only in the task holding
\* the execution slot, and a terminal status never changes again.
C3_StatusLifecycle ==
    [][\A j \in RequestIds :
          jobs'[j].status # jobs[j].status =>
              /\ <<jobs[j].status, jobs'[j].status>> \in Lifecycle
              /\ jobs'[j].status = "running" => slot = JobHolder(j)
              /\ jobs'[j].status \in Terminal => slot = JobHolder(j)]_vars

\* C3 witness: one job has gone Queued -> Running -> Failed while a later one
\* has gone to Running
C3_Witness ==
    \E j, k \in RequestIds :
        /\ jobs[j].status = "failed" /\ events[j] = <<"created", "running", "failed">>
        /\ jobs[k].status = "running"

\* C4: a Success or Failed job has completed_at set; a Success job has error
\* null and output non-null; a Failed job has error non-null.
C4_TerminalFields ==
    \A j \in RequestIds :
        /\ jobs[j].status \in Terminal => IsSome(jobs[j].completed_at)
        /\ jobs[j].status = "success" => IsNone(jobs[j].error) /\ IsSome(jobs[j].output)
        /\ jobs[j].status = "failed" => IsSome(jobs[j].error)
        /\ jobs[j].status \notin Terminal => IsNone(jobs[j].completed_at)

\* C4 witness: a Success job and a Failed job are in the store
C4_Witness ==
    \E j, k \in RequestIds : jobs[j].status = "success" /\ jobs[k].status = "failed"

\* C5: under fair scheduling, with terminating subprocesses and store
\* operations that succeed, every job whose request was answered 200
\* eventually reaches Success or Failed.
C5_AcceptedJobsTerminate ==
    \A j \in RequestIds :
        (req[j].resp = 200) ~> (jobs[j].status \in Terminal)

\* C5 witness: two accepted jobs have both reached a terminal status, one of
\* them after waiting for the slot the other held
C5_Witness ==
    \E j, k \in RequestIds :
        /\ j # k
        /\ req[j].resp = 200 /\ jobs[j].status = "success"
        /\ req[k].resp = 200 /\ jobs[k].status = "failed"
        /\ task[j].pc = "done" /\ task[k].pc = "done"

\* the task of job j has ended: it returned, or it panicked
Finished(j) == task[j].pc \in {"done", "panicked"}

\* C6: the execution slot is released on every exit path of the task (pipeline
\* success, pipeline error, dry run, the early return when marking the job
\* Running fails, panic): a finished task never holds it, and whoever holds it
\* is a task in flight or a reload in progress.
C6_SlotReleasedOnExit ==
    /\ \A j \in RequestIds : Finished(j) => slot # JobHolder(j)
    /\ \A j \in RequestIds : slot = JobHolder(j) => task[j].pc \in InFlight
    /\ slot = ReloadHolder => reload = "locked"

\* C6 witness: one task has left by the early return (its job is still
\* Queued), another has panicked, and the slot is free
C6_Witness ==
    \E j, k \in RequestIds :
        /\ task[j].pc = "done" /\ jobs[j].status = "queued"
        /\ task[k].pc = "panicked"
        /\ slot = FreeSlot

Answered(r, code) == req[r].pc = "done" /\ req[r].resp = code

\* C8: a webhook request creates a Job row (status Queued), broadcasts a
\* created event and spawns a background task if and only if its response is
\* 200; a request answered 204, 400, 401, 429 or 500 leaves the job store
\* unchanged and spawns no task.
C8_JobIffOk ==
    /\ [][\A r \in RequestIds :
            req'[r] # req[r] =>
                IF req'[r].resp = 200
                THEN /\ jobs[r] = NoJob /\ task[r] = NoTask /\ events[r] = <<>>
                     /\ jobs'[r].status = "queued"
                     /\ jobs'[r].dry_run = IsDryRun(req'[r].rq)
                     /\ events'[r] = <<"created">>
                     /\ task'[r].pc = "wait_slot"
                     /\ \A k \in RequestIds \ {r} :
                            jobs'[k] = jobs[k] /\ task'[k] = task[k] /\ events'[k] = events[k]
                ELSE jobs' = jobs /\ logs' = logs /\ events' = events /\ task' = task]_vars
    /\ [](\A r \in RequestIds :
            (jobs[r] # NoJob \/ task[r] # NoTask \/ events[r] # <<>>) => Answered(r, 200))

\* C8 witness: one request has been answered 200 and has its Queued row, its
\* created event and its task; another has been answered 500 by a failed
\* create_job and has none of them
C8_Witness ==
    \E r, k \in RequestIds :
        /\ Answered(r, 200) /\ jobs[r].status = "queued" /\ task[r].pc = "wait_slot"
        /\ Answered(k, 500) /\ faults = 1 /\ jobs[k] = NoJob /\ task[k] = NoTask

\* the request carries a signature header that verifies against the secret of
\* project p, which is configured and not empty
Verifies(p, rq) ==
    /\ IsSome(rq.sig)
    /\ IsSome(p.webhook_secret) /\ Unwrap(p.webhook_secret) # ""
    /\ verify_github_signature(Unwrap(p.webhook_secret), rq.body, Unwrap(rq.sig))

\* C9: for a project with with_webhook_secret = true a job is created only for
\* a request whose X-Hub-Signature-256 header verifies against the project's
\* non-empty secret; of the requests that pass the rate limiter, one without
\* the header gets 401 (also when the secret is empty or absent), one with the
\* header and an empty or absent secret gets 500, one whose signature does not
\* verify gets 401.
C9_SignatureGate ==
    \A r \in RequestIds :
        (IsSome(req[r].project) /\ Unwrap(req[r].project).with_webhook_secret = Some(TRUE)) =>
            LET p == Unwrap(req[r].project)
                rq == req[r].rq
                no_secret == IsNone(p.webhook_secret) \/ p.webhook_secret = Some("")
            IN /\ (jobs[r] # NoJob \/ req[r].pc = "create" \/ Answered(r, 200)) => Verifies(p, rq)
               /\ (req[r].pc = "done" /\ req[r].resp # 429) =>
                     /\ IsNone(rq.sig) => req[r].resp = 401
                     /\ (IsSome(rq.sig) /\ no_secret) => req[r].resp = 500
                     /\ (IsSome(rq.sig) /\ ~no_secret /\ ~Verifies(p, rq)) => req[r].resp = 401
                     /\ Verifies(p, rq) => req[r].resp \in {200, 500}

\* C9 witness: a project that requires a secret but has none configured has
\* answered 401 to a request without the header and 500 to one with it
C9_Witness ==
    \E r, k \in RequestIds :
        /\ Answered(r, 401) /\ IsNone(req[r].rq.sig)
        /\ IsSome(req[r].project) /\ ~has_valid_secret(Unwrap(req[r].project))
        /\ Answered(k, 500) /\ IsSome(req[k].rq.sig)
        /\ IsSome(req[k].project) /\ ~has_valid_secret(Unwrap(req[k].project))
        /\ faults = 0

\* the body parses as JSON and has ref and repository.name
BodyOk(rq) == rq.body.json /\ IsSome(rq.body.ref) /\ IsSome(rq.body.repo)

\* some project of cfg has the payload's repository name and branch
Matches(cfg, rq) ==
    \E i \in 1..Len(cfg) :
        /\ cfg[i].name = Unwrap(rq.body.repo)
        /\ StripRefsHeads(Unwrap(rq.body.ref)) \in cfg[i].branches

\* project p has used up its quota: max Instants younger than the window
Throttled(p) ==
    Len(SelectSeq(rl_requests[p.name], LAMBDA age : age < get_rate_limit_window(p)))
        >= get_rate_limit(p)

\* the request fails one of the signature checks of project p
SigFails(p, rq) == p.with_webhook_secret = Some(TRUE) /\ ~Verifies(p, rq)

\* C10: the response is decided by the first failing check in the order: event
\* header not push -> 204; body not JSON or without ref or repository.name ->
\* 400; no project matches -> 204; rate limit exceeded -> 429; then the
\* signature checks.  A throttled request gets 429 whatever its signature, and
\* a request that matches no project never changes the rate limiter.  (Requests
\* with the debug-probe query parameter are outside the claim.)
C10_CheckOrder ==
    [][\A r \in RequestIds :
          (req'[r] # req[r] /\ ~req'[r].rq.dev) =>
              LET rq == req'[r].rq
              IN IF req[r].pc = "idle"
                 THEN /\ rl_requests' = rl_requests
                      /\ IF rq.event # Some("push")
                         THEN req'[r].pc = "done" /\ req'[r].resp = 204
                         ELSE IF ~BodyOk(rq)
                         THEN req'[r].pc = "done" /\ req'[r].resp = 400
                         ELSE IF ~Matches(config, rq)
                         THEN req'[r].pc = "done" /\ req'[r].resp = 204
                         ELSE req'[r].pc = "rl_wait" /\ req'[r].resp = 0
                 ELSE IF req[r].pc = "rl_wait"
                 THEN LET p == Unwrap(req[r].project)
                      IN IF Throttled(p)
                         THEN /\ req'[r].pc = "done" /\ req'[r].resp = 429
                              /\ Len(rl_requests'[p.name]) <= Len(rl_requests[p.name])
                         ELSE /\ Len(rl_requests'[p.name]) >= 1
                              /\ rl_requests'[p.name][Len(rl_requests'[p.name])] = 0
                              /\ IF SigFails(p, rq)
                                 THEN req'[r].pc = "done" /\ req'[r].resp \in {401, 500}
                                 ELSE req'[r].pc = "create" /\ req'[r].resp = 0
                 ELSE req'[r].resp \in {200, 500}]_vars

\* C10 witness: two requests without signature to the project that requires
\* one: the first passed the rate limiter and was answered 401, the second
\* was throttled and answered 429
C10_Witness ==
    \E k, r \in RequestIds :
        /\ k < r
        /\ Answered(k, 401) /\ IsNone(req[k].rq.sig)
        /\ Answered(r, 429) /\ IsNone(req[r].rq.sig)
        /\ Unwrap(req[r].project).with_webhook_secret = Some(TRUE)
        /\ Unwrap(req[k].project).name = Unwrap(req[r].project).name

\* the calls recorded before call i that had the same key
Earlier(i) == {k \in 1..(i - 1) : trace.calls[k].key = trace.calls[i].key}

\* call i and all earlier calls for its key fall within one window
WithinOneWindow(i) ==
    \A k \in Earlier(i) : trace.calls[i].at - trace.calls[k].at < trace.window_secs

\* C11: starting from an empty rate limiter, for calls that all fall within one
\* window, the (N+1)-th call for a key returns throttled if and only if
\* N >= max (so with max = 0 every call is throttled).
C11_Monotonicity ==
    \A i \in 1..Len(trace.calls) :
        WithinOneWindow(i) =>
            (trace.calls[i].throttled <=> Cardinality(Earlier(i)) >= trace.max)

\* C11 witness: with max = 2 the third call for a key within one window has
\* been throttled after two admitted ones, while another key was admitted
C11_Witness ==
    /\ trace.max = 2 /\ Len(trace.calls) = 4
    /\ \E i \in 1..4 :
          /\ Cardinality(Earlier(i)) = 2 /\ WithinOneWindow(i)
          /\ trace.calls[i].throttled
          /\ \A k \in Earlier(i) : ~trace.calls[k].throttled
    /\ \E i \in 1..4 : Earlier(i) = {} /\ ~trace.calls[i].throttled /\ trace.calls[i].at > 0

\* the timestamps of ts that are not older than now - window_secs
NotOlder(ts, window_secs) == SelectSeq(ts, LAMBDA age : age <= window_secs)

\* C12: a call at time now first drops exactly the recorded timestamps of its
\* key that are older than now - window_secs, keeping all others, then admits
\* and records now iff fewer than max timestamps remain.
\* Violated: a timestamp exactly window_secs old is not older than
\* now - window_secs, yet retain(|t| now.duration_since(t) < window) drops it.
C12_DropsOlderThanWindow ==
    [][Len(trace'.calls) > Len(trace.calls) =>
          LET c == trace'.calls[Len(trace'.calls)]
              kept == NotOlder(rl_requests[c.key], trace.window_secs)
          IN /\ c.throttled = (Len(kept) >= trace.max)
             /\ rl_requests'[c.key] = IF Len(kept) < trace.max THEN Append(kept, 0) ELSE kept
             /\ \A n \in ProjectNames \ {c.key} : rl_requests'[n] = rl_requests[n]]_vars

\* the requests matched to project n whose handlers have made the rate check
Reached(n) ==
    {r \in RequestIds : /\ req[r].pc \in {"create", "done"}
                        /\ IsSome(req[r].project) /\ Unwrap(req[r].project).name = n}

\* those of them that were not throttled
Admitted(n) == {r \in Reached(n) : ~Answered(r, 429)}

\* rate_limit_requests of project n (the same in every configuration file)
QuotaOf(n) ==
    LET i == CHOOSE k \in 1..Len(Config1) : Config1[k].name = n
    IN IF IsSome(Config1[i].rate_limit_requests)
       THEN Unwrap(Config1[i].rate_limit_requests) ELSE DefaultRateLimit

Pipelines == {j \in RequestIds : task[j].pc # "none" /\ ~task[j].dry_run}

\* the log types of job j's rows, in insertion order: its steps as they started
Types(j) == [i \in 1..Len(logs[j]) |-> logs[j][i].log_type]

IsPrefix(a, b) == Len(a) <= Len(b) /\ \A i \in 1..Len(a) : a[i] = b[i]

PostTypes == {"post_success", "post_failure", "post_script"}
FatalTypes == {"git_fetch", "git_reset", "git_switch", "git_pull", "pre_script"}

\* the fixed order up to main_script for project p
UpToMain(p) ==
    <<"git_fetch">>
    \o (IF p.reset_to_remote = Some(FALSE) THEN <<"git_switch", "git_pull">>
        ELSE <<"git_reset">>)
    \o (IF IsSome(p.pre_script) THEN <<"pre_script">> ELSE <<>>)
    \o <<"main_script">>

\* the complete step orders the claim allows for project p
Orders(p) ==
    { UpToMain(p) \o hook
                  \o (IF IsSome(p.post_always_script) THEN <<"post_always">> ELSE <<>>) :
        hook \in {<<>>} \cup {<<h>> : h \in PostTypes} }

\* the pipeline of job j has returned
Returned(j) == task[j].pc \in {"complete", "done"}

\* C14: in every non-dry-run job the steps start in the order git_fetch, then
\* git_reset (reset_to_remote true or unset) or git_switch, git_pull (false),
\* then pre_script if configured, then main_script, then at most one of
\* post_success / post_failure / post_script, then post_always if configured;
\* no step starts out of this order and none runs twice.
C14_StepOrder ==
    \A j \in Pipelines :
        \E o \in Orders(Unwrap(task[j].project)) : IsPrefix(Types(j), o)

\* C14 witness: a job has run git_fetch, git_switch, git_pull, pre_script,
\* main_script, post_failure and post_always, in this order
C14_Witness ==
    \E j \in Pipelines :
        /\ Returned(j)
        /\ Types(j) = <<"git_fetch", "git_switch", "git_pull", "pre_script",
                        "main_script", "post_failure", "post_always">>

\* row i of job j records a failed fatal step: finalized as failed, or left
\* running by a git command that could not be spawned
FatalFailure(j, i) ==
    /\ logs[j][i].log_type \in FatalTypes
    /\ \/ logs[j][i].status = "failed"
       \/ logs[j][i].status = "running" /\ Returned(j)

RowsOf(j, ty) == {i \in 1..Len(logs[j]) : logs[j][i].log_type = ty}

\* the steps that follow a failed main_script for project p
AfterFailedMain(p) ==
    (IF IsSome(p.post_failure_script) THEN <<"post_failure">>
     ELSE IF IsSome(p.post_script) THEN <<"post_script">> ELSE <<>>)
    \o (IF IsSome(p.post_always_script) THEN <<"post_always">> ELSE <<>>)

\* C16: when main_script fails, the configured post_failure_script (or else
\* the configured post_script) and the configured post_always_script are still
\* executed, and only after they have finished is the job marked Failed.
C16_HooksBeforeFailed ==
    \A j \in Pipelines :
        \A m \in RowsOf(j, "main_script") :
            logs[j][m].status = "failed" =>
                /\ jobs[j].status \in {"running", "failed"}
                /\ (Returned(j) \/ jobs[j].status = "failed") =>
                      /\ SubSeq(Types(j), m + 1, Len(logs[j]))
                            = AfterFailedMain(Unwrap(task[j].project))
                      /\ \A i \in (m + 1)..Len(logs[j]) :
                            logs[j][i].status \in {"success", "failed"}
                /\ (task[j].pc = "done" /\ faults = 0) => jobs[j].status = "failed"

\* C16 witness: main_script has failed, then post_script (no post_failure
\* being configured) and post_always have run, and the job is Failed
C16_Witness ==
    \E j \in Pipelines :
        /\ jobs[j].status = "failed"
        /\ IsNone(Unwrap(task[j].project).post_failure_script)
        /\ \E m \in RowsOf(j, "main_script") :
              /\ logs[j][m].status = "failed"
              /\ SubSeq(Types(j), m + 1, Len(logs[j])) = <<"post_script", "post_always">>

\* C17: a job's terminal status is Success iff every git step, the pre_script
\* (if configured) and the main_script succeeded; the outcome of post_success,
\* post_failure, post_script and post_always never changes it.
C17_StatusFromMainLine ==
    \A j \in Pipelines :
        jobs[j].status \in Terminal =>
            (jobs[j].status = "success" <=>
                /\ Types(j) # <<>>
                /\ IsPrefix(UpToMain(Unwrap(task[j].project)), Types(j))
                /\ \A i \in 1..Len(logs[j]) :
                      logs[j][i].log_type \in FatalTypes \cup {"main_script"} =>
                          logs[j][i].status = "success")

\* C17 witness: a job is Success although its post_success and post_always
\* hooks have both failed
C17_Witness ==
    \E j \in Pipelines :
        /\ jobs[j].status = "success"
        /\ \E i \in RowsOf(j, "post_success") : logs[j][i].status = "failed"
        /\ \E i \in RowsOf(j, "post_always") : logs[j][i].status = "failed"

\* the hook the claim selects for project p after main has ended
HookFor(p, main_status) ==
    IF main_status = "success"
    THEN IF IsSome(p.post_success_script) THEN <<"post_success">>
         ELSE IF IsSome(p.post_script) THEN <<"post_script">> ELSE <<>>
    ELSE IF IsSome(p.post_failure_script) THEN <<"post_failure">>
         ELSE IF IsSome(p.post_script) THEN <<"post_script">> ELSE <<>>

\* C18: in one job at most one of post_success, post_failure and post_script
\* runs: after a successful main post_success_script if configured, otherwise
\* post_script if configured; after a failed main post_failure_script if
\* configured, otherwise post_script if configured; post_script never runs in
\* the same job as the outcome-specific hook.
C18_OneHook ==
    \A j \in Pipelines :
        LET hooks == {i \in 1..Len(logs[j]) : logs[j][i].log_type \in PostTypes}
            p == Unwrap(task[j].project)
        IN /\ Cardinality(hooks) <= 1
           /\ \A i \in hooks :
                 /\ i > 1 /\ logs[j][i - 1].log_type = "main_script"
                 /\ <<logs[j][i].log_type>> = HookFor(p, logs[j][i - 1].status)
           /\ \A m \in RowsOf(j, "main_script") :
                 (Returned(j) /\ HookFor(p, logs[j][m].status) # <<>>) =>
                     /\ Len(logs[j]) > m
                     /\ <<logs[j][m + 1].log_type>> = HookFor(p, logs[j][m].status)

\* C18 witness: with post_success_script and post_script both configured and a
\* successful main, post_success has run and post_script has not
C18_Witness ==
    \E j \in Pipelines :
        LET p == Unwrap(task[j].project)
        IN /\ IsSome(p.post_success_script) /\ IsSome(p.post_script)
           /\ Returned(j)
           /\ RowsOf(j, "post_success") # {} /\ RowsOf(j, "post_script") = {}
           /\ \E m \in RowsOf(j, "main_script") : logs[j][m].status = "success"

(* ------------------------- claims on the rows -------------------------- *)
\* C19: for every job (executed or dry-run) the sequence values of its
\* persisted JobLog rows are exactly 1..N with no gaps, in insertion order.
\* Violated: the dry-run simulation numbers its rows from 0.
C19_DenseSequences ==
    \A j \in RequestIds :
        \A i \in 1..Len(logs[j]) : logs[j][i].sequence = i

(* ------------------------- claims on the reload ------------------------ *)
\* C20: the configuration snapshot is replaced only by a reload request that
\* holds the execution slot, so it never changes while a job's pipeline is in
\* flight, and a reload requested during a pipeline gets the slot, and takes
\* effect, only after that pipeline has finished.
C20_ReloadHoldsSlot ==
    /\ [][config' # config =>
            /\ reload = "locked" /\ slot = ReloadHolder
            /\ TasksInFlight = {}
            /\ reload' = "idle" /\ slot' = FreeSlot]_vars
    /\ [][(reload = "waiting" /\ reload' # "waiting") =>
            /\ TasksInFlight = {}
            /\ config' = config /\ reload' = "locked" /\ slot' = ReloadHolder]_vars
    /\ [](reload = "waiting" => slot # ReloadHolder)

\* C20 witness: a reload has replaced the configuration, one job's pipeline
\* has finished after it, and the next reload request waits while another
\* job's pipeline runs a step
C20_Witness ==
    /\ config = Config2
    /\ reload = "waiting"
    /\ \E j, k \in RequestIds :
          /\ task[j].pc = "done" /\ jobs[j].status \in Terminal
          /\ task[k].pc = "step_run" /\ slot = JobHolder(k)

(* ------------------------- claims on the dry run ----------------------- *)
\* the jobs whose task simulates the pipeline
DryRuns == {j \in RequestIds : task[j].pc # "none" /\ task[j].dry_run}

C22_PostEnvIsMainExitCode ==
    (IsSome(trace.returned) /\ Unwrap(trace.returned).kind # "spawn_fail") =>
        /\ trace.row_exit_code = Some(Unwrap(trace.returned).code)
        /\ \A i \in 1..Len(trace.launched) :
              trace.launched[i].env = Unwrap(trace.returned).code

(* ----------------------- claims on the jobs row ------------------------ *)
\* C23: for every job in a terminal status, completed_at >= started_at and
\* the stored duration_ms equals (completed_at - started_at) in milliseconds
\* clamped to be non-negative, for any values the wall clock returns at job
\* creation and at completion.
\* Violated: complete_job stores the difference as it is, and the completion
\* time as read, also when the wall clock was set back after the creation.
C23_DurationClamped ==
    trace.status \in Terminal =>
        LET started == Unwrap(parse_from_rfc3339(trace.started_at))
            completed == Unwrap(parse_from_rfc3339(Unwrap(trace.completed_at)))
        IN /\ completed >= started
           /\ trace.duration_ms =
                  Some(IF completed - started >= 0 THEN completed - started ELSE 0)

\* the output the claim has the store keep: at most the cap, then the marker
Capped(output) ==
    IF output.len > MAX_OUTPUT_SIZE
    THEN Text(MAX_OUTPUT_SIZE, "\n... (output truncated)")
    ELSE output

\* C24: the output persisted for a job never exceeds 1 MiB plus the truncation
\* marker: a composite output longer than 1 MiB is stored as its first 1 MiB
\* followed by the "... (output truncated)" marker with output_truncated true;
\* otherwise the output is stored unchanged and output_truncated is false.
\* Violated: complete_job binds the output as it is and never writes
\* output_truncated.
C24_OutputCapped ==
    [][(trace.status = "running" /\ trace'.status = "success") =>
          \E output \in OutputTexts :
              /\ trace'.output = Some(Capped(output))
              /\ Unwrap(trace'.output).len <= MAX_OUTPUT_SIZE
              /\ output_truncated(trace') = (output.len > MAX_OUTPUT_SIZE)]_vars

(* ------------------------ claims on the events ------------------------- *)
\* the orders of a job's events that the claim allows
EventOrders == {<<"created", "running", t>> : t \in Terminal}

\* C25: for every job, job events are issued in the order created, running,
\* then exactly one of success or failed; no event for a job is issued after
\* its terminal event, and every live subscriber that does not lag receives a
\* job's events in that order.
C25_EventOrder ==
    /\ [](\A j \in RequestIds :
            /\ \E o \in EventOrders : IsPrefix(events[j], o)
            /\ (task[j].pc = "done" /\ Len(events[j]) >= 2) => Len(events[j]) = 3
            /\ trace.live =>
                  /\ trace.from[j] + Len(trace.received[j]) <= Len(events[j])
                  /\ trace.received[j] =
                         SubSeq(events[j], trace.from[j] + 1,
                                trace.from[j] + Len(trace.received[j])))
    /\ [][\A j \in RequestIds :
            events'[j] # events[j] =>
                /\ Len(events'[j]) = Len(events[j]) + 1
                /\ IsPrefix(events[j], events'[j])
                /\ \A i \in 1..Len(events[j]) : events[j][i] \notin Terminal]_vars

\* C25 witness: a client that subscribed before two jobs were created has
\* received created, running, failed of one and created, running, success of
\* the other, a dry run
C25_Witness ==
    /\ trace.live
    /\ \E j, k \in RequestIds :
          /\ trace.from[j] = 0 /\ trace.received[j] = <<"created", "running", "failed">>
          /\ trace.from[k] = 0 /\ trace.received[k] = <<"created", "running", "success">>
          /\ task[k].dry_run

(* ---------------------- claims on the signature ------------------------ *)
\* the header is "sha256=" followed by a hex string that decodes to exactly
\* the MAC of the payload under the secret
CarriesMac(secret, payload, text) ==
    /\ text.prefix = "sha256="
    /\ ~text.hex.odd
    /\ \A i \in 1..Len(text.hex.pairs) : text.hex.pairs[i].valid
    /\ [i \in 1..Len(text.hex.pairs) |-> text.hex.pairs[i].byte] = Hmac(secret, payload)

\* C26: verify_github_signature(secret, payload, header) returns true if and
\* only if header is "sha256=" followed by a hex string that decodes to
\* exactly HMAC-SHA256(secret, payload); any other header (wrong prefix,
\* malformed hex, wrong length, any flipped bit of the signature) returns
\* false and never raises an error.
C26_VerifiesExactlyTheMac ==
    IsSome(trace.result) =>
        /\ Unwrap(trace.result) \in BOOLEAN
        /\ Unwrap(trace.result) <=> CarriesMac(trace.secret, trace.payload, trace.header)

\* C26 witness: a header with the right prefix and well-formed hex has been
\* rejected because it carries the MAC cut short
C26_Witness ==
    /\ trace.result = Some(FALSE)
    /\ trace.header.prefix = "sha256="
    /\ hex_decode(trace.header.hex) =
           Some(SubSeq(Hmac(trace.secret, trace.payload), 1, 1))

\* C27: in verify_github_signature, the comparison of the computed MAC with
\* the provided signature bytes takes time that does not depend on the
\* position of the first differing byte (constant-time over the MAC length).
\* Violated: the comparison is `==` on slices, which may stop at the first
\* byte that differs.
C27_ConstantTimeCompare ==
    (IsSome(trace.cost) /\
     Len(ParseHeader(trace.header).bytes) = Len(Hmac(trace.secret, trace.payload))) =>
        \A other \in {b \in SigBytes : Len(b) = Len(Hmac(trace.secret, trace.payload))} :
            \A c \in SliceEqCosts(Hmac(trace.secret, trace.payload), other) :
                Unwrap(trace.cost) = c

(* ----------------------- claims on the step rows ----------------------- *)
\* the rows of job j that are in status running
RunningRows(j) == {i \in 1..Len(logs[j]) : logs[j][i].status = "running"}

C29_NoRowLeftRunning ==
    \A j \in Pipelines :
        jobs[j].status \in Terminal =>
            /\ RunningRows(j) = {}
            /\ jobs[j].status = "failed" => IsSome(jobs[j].error)

\* b with the elements at the places in S left out, up to place n
RECURSIVE KeepAt(_, _, _)
KeepAt(b, S, n) ==
    IF n = 0 THEN <<>>
    ELSE IF n \in S THEN KeepAt(b, S, n - 1)
    ELSE Append(KeepAt(b, S, n - 1), b[n])

\* a is b with Len(b) - Len(a) of its elements left out
IsSubseq(a, b) == \E S \in SUBSET (1..Len(b)) : KeepAt(b, S, Len(b)) = a

\* C30: if persisting a step's starting row fails (add_log returns an error),
\* the step's subprocess still runs, no update_log is issued for that step,
\* and the remaining steps and the job's terminal status are the same as if
\* the row had been persisted.
C30_StepRunsWithoutRow ==
    /\ [][\A j \in RequestIds :
            /\ (task[j].pc = "step_start" /\ task'[j] # task[j]) =>
                  /\ task'[j].pc = "step_run" /\ task'[j].step = task[j].step
                  /\ task'[j].sequence = task[j].sequence + 1
                  /\ IsNone(task'[j].row) <=> logs'[j] = logs[j]
            /\ (task[j].pc = "step_run" /\ IsNone(task[j].row) /\ task'[j] # task[j]) =>
                  /\ logs' = logs /\ faults' = faults
                  /\ \E out \in CoreOutcomes :
                        task'[j] = Stepped([task[j] EXCEPT !.row = Some(1)], out)]_vars
    /\ [](\A j \in Pipelines :
            LET p == Unwrap(task[j].project)
            IN /\ task[j].sequence - Len(logs[j]) <= faults
               /\ \E o \in Orders(p) :
                     /\ task[j].sequence <= Len(o)
                     /\ IsSubseq(Types(j), SubSeq(o, 1, task[j].sequence))
               /\ (Returned(j) /\ task[j].result = "ok") =>
                     \E o \in Orders(p) :
                         task[j].sequence = Len(o) /\ IsSubseq(Types(j), o)
               /\ jobs[j].status \in Terminal =>
                     (jobs[j].status = "success" <=> task[j].result = "ok"))

\* C30 witness: the starting row of main_script could not be persisted; the
\* script ran and failed all the same, post_failure ran after it, and the job
\* is Failed
C30_Witness ==
    \E j \in Pipelines :
        /\ faults = 1 /\ jobs[j].status = "failed"
        /\ RowsOf(j, "main_script") = {} /\ RowsOf(j, "post_failure") # {}
        /\ task[j].sequence = Len(logs[j]) + 1
        /\ \A i \in 1..Len(logs[j]) : logs[j][i].status \in {"success", "failed"}

\* C31: a store failure that occurs after a job's task has acquired the
\* execution slot, including a failure to persist the transition to Running,
\* is logged and ignored: the task that has ended has run the job's steps
\* (the pipeline, or the dry-run simulation, has returned).
\* Violated: when update_job_status(Running) returns Err the task returns at
\* once; no step is started and the job stays Queued.
C31_StoreFailureIgnored ==
    \A j \in RequestIds :
        task[j].pc = "done" =>
            /\ task[j].step # "none"
            /\ task[j].result # "none"
            /\ "running" \in {events[j][i] : i \in 1..Len(events[j])}

\* C32: the rate-limiter mutex is never held across an I/O suspension point:
\* a handler that awaits create_job has released it, so no handler waiting
\* for the rate limiter is kept waiting by another handler's database write.
\* Violated: the MutexGuard `rate_limiter` lives to the end of the
\* `if let Some(project)` block, which contains create_job(&job).await.
C32_RateLimiterNotHeldAcrossIO ==
    \A r \in RequestIds :
        req[r].pc = "create" =>
            /\ rl_holder # r
            /\ \A k \in RequestIds : req[k].pc = "rl_wait" => ENABLED H_RateCheck(k)

\* C35: a success or failed event for a job is broadcast only after the job
\* store holds that same terminal status for the job, also when complete_job
\* returns an error.
\* Violated: the error of complete_job is logged and the terminal event is
\* sent all the same, while the row is still Running.
C35_TerminalEventAfterStore ==
    \A j \in RequestIds :
        \A i \in 1..Len(events[j]) :
            events[j][i] \in Terminal => jobs[j].status = events[j][i]

(* ------------------- claims on the later behaviours -------------------- *)
\* C33: after any sequence of check_rate_limit calls, the number of
\* timestamps stored for a key never exceeds the max passed in the most
\* recent call for that key, also when max differs between calls.
\* Violated: check_rate_limit only declines to push; it never removes the
\* timestamps that a larger max admitted earlier in the window.
C33_StoredAtMostMax ==
    \A key \in RateKeys :
        IsSome(trace.last[key]) =>
            Len(rl_requests[key]) <= Unwrap(trace.last[key]).max

\* C34: a job executes with the project configuration that was matched when
\* its webhook was accepted: the task carries that project unchanged, every
\* step it starts and every command it records are those of that project,
\* and a step that swaps the configuration changes no task, job or log row.
C34_RunsWithSnapshot ==
    /\ [](\A j \in RequestIds :
            task[j].pc # "none" =>
                LET p == Unwrap(req[j].project)
                IN /\ task[j].project = req[j].project
                   /\ ~task[j].dry_run =>
                         /\ \E o \in Orders(p) : IsPrefix(Types(j), o)
                         /\ \A i \in 1..Len(logs[j]) :
                               logs[j][i].command = StepCommand(p, logs[j][i].log_type)
                   /\ task[j].dry_run =>
                         \A i \in 1..Len(logs[j]) :
                             logs[j][i].command = DryCommand(p, logs[j][i].log_type))
    /\ [][/\ \A j \in RequestIds :
                /\ req[j].pc \notin {"idle"} => req'[j].project = req[j].project
                /\ task[j].pc # "none" => task'[j].project = task[j].project
          /\ config' # config => task' = task /\ jobs' = jobs /\ logs' = logs]_vars

\* C34 witness: the configuration now holds the edited project; a job accepted
\* before the reload runs its main script, having done git_reset and recorded
\* the old run_script, while a job accepted after the reload waits for the
\* slot with the edited project
C34_Witness ==
    \E j, k \in RequestIds :
        /\ config = Config3
        /\ req[j].project = Some(Config1[1]) /\ ~task[j].dry_run
        /\ task[j].pc = "step_run" /\ task[j].step = "main_script"
        /\ Types(j) = <<"git_fetch", "git_reset", "main_script">>
        /\ logs[j][3].command = "run"
        /\ req[k].project = Some(Config3[1]) /\ task[k].pc = "wait_slot"

\* C36: broadcast sends never block and never fail a job.  Whatever the
\* client of the event streams does (none, one that keeps up, one that has
\* more than the channel's capacity unread), every store write and every send
\* of a handler or a task can proceed; a step of the client changes nothing
\* but the client; and the job, its rows and the task after a send are those
\* fixed by the request, the store results and the subprocess results alone.
C36_SendsNeverBlockOrFail ==
    /\ [](/\ \A r \in RequestIds : req[r].pc = "create" => ENABLED H_CreateJob(r, TRUE)
          /\ \A j \in RequestIds :
                /\ task[j].pc = "mark_running" => ENABLED T_MarkRunning(j, TRUE)
                /\ task[j].pc = "dry_log" => ENABLED T_DryAddLog(j, TRUE)
                /\ task[j].pc = "step_start" => ENABLED T_StartStep(j, TRUE)
                /\ task[j].pc = "step_run" =>
                      \A out \in ExitOutcomes : ENABLED T_FinishStep(j, out, TRUE)
                /\ task[j].pc = "complete" => ENABLED T_Complete(j, TRUE)
                /\ jobs[j].status \in Terminal =>
                      /\ (jobs[j].status = "success") <=> (task[j].result = "ok")
                      /\ ~task[j].dry_run =>
                            \E o \in Orders(Unwrap(task[j].project)) :
                                /\ IsPrefix(Types(j), o)
                                /\ jobs[j].status = "success" => Types(j) = o)
    /\ [][/\ trace' # trace =>
                UNCHANGED <<config, rl_requests, rl_holder, req, jobs, logs, events, task,
                            slot, reload, faults>>
          /\ \A j \in RequestIds :
                /\ events'[j] # events[j] =>
                      /\ trace' = trace
                      /\ \E e \in {"created", "running", "success", "failed"} :
                            /\ events'[j] = Append(events[j], e)
                            /\ e = "created" =>
                                  /\ jobs'[j] = NewJob(IsDryRun(req[j].rq))
                                  /\ task'[j].pc = "wait_slot" /\ req'[j].resp = 200
                            /\ e = "running" =>
                                  /\ jobs'[j].status = "running"
                                  /\ task'[j].pc = IF task[j].dry_run THEN "complete"
                                                   ELSE "step_start"
                            /\ e \in Terminal =>
                                  /\ e = IF task[j].result = "ok" THEN "success" ELSE "failed"
                                  /\ jobs'[j].status = e
                                  /\ task'[j].pc = "done" /\ slot' = FreeSlot
                /\ (task[j].pc = "step_run" /\ task'[j] # task[j]) =>
                      /\ trace' = trace
                      /\ \E out \in ExitOutcomes :
                            /\ task'[j] = Stepped(task[j], out)
                            /\ logs'[j] = FinishRow(logs[j], task[j], out)]_vars

\* C36 witness: a client of job_events has more than the channel's capacity
\* unread while one job has ended in Success and another in Failed, each with
\* all its rows finalized
C36_Witness ==
    /\ trace.stream = "job_events" /\ Unread > ChannelCapacity
    /\ \E j, k \in RequestIds :
          /\ jobs[j].status = "success" /\ ~task[j].dry_run
          /\ jobs[k].status = "failed"
          /\ RunningRows(j) = {} /\ RunningRows(k) = {}

\* the steps a run of project p starts from `step` on when every step succeeds
RECURSIVE StepsFrom(_, _)
StepsFrom(p, step) ==
    IF step = "end" THEN <<>>
    ELSE <<step>> \o StepsFrom(p, NextStep(p, step, TRUE))

\* the sequence numbers and step types of job j's rows, in insertion order
Numbered(j) == [i \in 1..Len(logs[j]) |-> <<logs[j][i].sequence, logs[j][i].log_type>>]

\* C37: for every project configuration, the ordered list of JobLog step
\* types written by a dry-run job equals the ordered list of steps a real run
\* of the same push attempts when every step succeeds, with the same
\* log_type names and the same sequence numbers.
\* Violated: the simulation numbers its rows from 0, always writes git_reset,
\* ignores post_script, and names its hook rows post_success_script and
\* post_always_script.
C37_DryRunMatchesRealRun ==
    \A j \in DryRuns :
        jobs[j].status = "success" =>
            LET o == StepsFrom(Unwrap(task[j].project), "git_fetch")
            IN Numbered(j) = [i \in 1..Len(o) |-> <<i, o[i]>>]

\* job j's row has been marked Running (and may have ended since)
Marked(j) == jobs[j].status \in {"running", "success", "failed"}

C39_NoCyclicWait ==
    /\ \A r \in RequestIds :
          /\ rl_holder = r => req[r].pc = "create"
          /\ req[r].pc = "create" => rl_holder = r /\ ENABLED H_CreateJob(r, TRUE)
          /\ req[r].pc = "rl_wait" =>
                IF rl_holder = 0 THEN ENABLED H_RateCheck(r)
                ELSE req[rl_holder].pc = "create"
    /\ \A j \in RequestIds :
          /\ slot = JobHolder(j) <=> task[j].pc \in InFlight
          /\ task[j].pc = "mark_running" => ENABLED T_MarkRunning(j, TRUE)
          /\ task[j].pc = "dry_log" => ENABLED T_DryAddLog(j, TRUE)
          /\ task[j].pc = "step_start" => ENABLED T_StartStep(j, TRUE)
          /\ task[j].pc = "step_run" =>
                \A out \in CoreOutcomes : ENABLED T_FinishStep(j, out, TRUE)
          /\ task[j].pc = "complete" => ENABLED T_Complete(j, TRUE)
          /\ task[j].pc = "wait_slot" =>
                IF slot = FreeSlot THEN ENABLED T_Acquire(j)
                ELSE slot = ReloadHolder \/ \E k \in TasksInFlight : slot = JobHolder(k)
    /\ slot = ReloadHolder <=> reload = "locked"
    /\ reload = "locked" => \A file \in ReloadResults(ConfigFiles) : ENABLED R_Apply(file)
    /\ reload = "waiting" =>
          IF slot = FreeSlot THEN ENABLED R_Grant
          ELSE \E k \in TasksInFlight : slot = JobHolder(k)

\* C39 witness: a handler awaits the store holding the rate-limiter mutex,
\* the task of an earlier job runs a step holding the execution slot, and a
\* reload request waits for the slot
C39_Witness ==
    \E r, j \in RequestIds :
        /\ req[r].pc = "create" /\ rl_holder = r
        /\ task[j].pc = "step_run" /\ slot = JobHolder(j)
        /\ reload = "waiting"

\* C40: a request to a secret-protected project that is rejected with 401
\* (missing or invalid signature) or 500 (empty secret) has already recorded
\* a timestamp in the rate limiter: the step that rejects it appends the
\* Instant of the call to the project's timestamps, so the request counts
\* against the project's quota like an accepted one, and a later request is
\* answered 429 when the timestamps still in the window, those of rejected
\* requests included, have reached the quota.
C40_RejectedRequestsCount ==
    [][\A r \in RequestIds :
          (req[r].pc = "rl_wait" /\ req'[r].pc = "done") =>
              LET p == Unwrap(req[r].project)
                  kept == Retained(rl_requests[p.name], get_rate_limit_window(p))
              IN /\ req'[r].resp \in {401, 500} =>
                       /\ needs_webhook_secret(p) /\ ~Verifies(p, req[r].rq)
                       /\ Len(kept) < get_rate_limit(p)
                       /\ rl_requests'[p.name] = Append(kept, 0)
                       /\ jobs' = jobs /\ task' = task
                 /\ req'[r].resp = 429 =>
                       /\ Len(kept) >= get_rate_limit(p)
                       /\ rl_requests'[p.name] = kept]_vars

\* C40 witness: an unsigned push to project sec was answered 401 and its
\* timestamp is still in the window; the correctly signed push that followed
\* was answered 429, and no job exists
C40_Witness ==
    \E r, k \in RequestIds :
        /\ r < k
        /\ Answered(r, 401) /\ IsNone(req[r].rq.sig)
        /\ Unwrap(req[r].project).name = "sec"
        /\ Answered(k, 429) /\ Verifies(Unwrap(req[k].project), req[k].rq)
        /\ Unwrap(req[k].project).name = "sec"
        /\ rl_requests["sec"] = <<0>>
        /\ \A j \in RequestIds : jobs[j] = NoJob

====
